---- MODULE Spec2Model ----
(***************************************************************************)
(* A model of the gmail-mcp tool-dispatch server (src/src/index.ts).       *)
(*                                                                         *)
(* Spec       the CallTool dispatcher: lazy session set-up from the two    *)
(*            configuration files, the switch over tool names, the         *)
(*            handlers' upstream requests and the result envelope.         *)
(*            The handler registered for CallToolRequestSchema is an async *)
(*            function: it is suspended at every await and nothing in the  *)
(*            server keeps the transport from delivering the next request  *)
(*            meanwhile, so calls are modelled as interleaved processes.   *)
(* CodecSpec  the pure MIME codec: createRawMessage, decodeBase64.         *)
(***************************************************************************)
EXTENDS Integers, Sequences, FiniteSets, TLC

VARIABLES
    credFile,      \* what is at CREDENTIALS_PATH: "absent", or the shape of the JSON
    tokenFile,     \* whether a file exists at TOKEN_PATH
    oauth2Client,  \* this.oauth2Client: 0 is null, 1 a client built from the credentials
    gmail,         \* this.gmail: 0 is null, n the n-th session handle assigned to it
    calls,         \* the tool calls, by order of arrival
    inflight,      \* upstream requests issued and not yet answered
    fsTrace,       \* the file-system calls made by the latest step
    delivered,     \* the call the latest step delivered, 0 when it delivered none
    outcome,       \* the call the latest step completed, as handed to the transport
    codec,         \* the state of the codec specification
    partTree,      \* the state of the part-tree specification
    compose,       \* the state of the reply/forward specification
    labels,        \* the state of the label specification
    catalog,       \* the state of the catalog specification
    cleanup,       \* the state of the cleanup script
    auth           \* the state of the authentication helper

vars == <<credFile, tokenFile, oauth2Client, gmail, calls, inflight, fsTrace, delivered, outcome,
         codec, partTree, compose, labels, catalog, cleanup, auth>>

\* the variables of the specifications of the catalog and the two scripts
toolingVars == <<catalog, cleanup, auth>>

dispatcherVars == <<credFile, tokenFile, oauth2Client, gmail, calls, inflight, fsTrace, delivered, outcome>>

-----------------------------------------------------------------------------
(* Bounds *)

\* tool calls delivered by the transport during one run
MaxCalls == 2

\* ids returned by one upstream list request
MaxItems == 2

-----------------------------------------------------------------------------
(* Configuration files *)

CREDENTIALS_PATH == "~/.gmail-mcp/credentials.json"

TOKEN_PATH == "~/.gmail-mcp/token.json"

\* the shapes of the credentials JSON: credentials.installed || credentials.web
CredShapes == {"installed", "web", "neither"}

CredStates == {"absent"} \cup CredShapes

NoError == ""

CredentialsMissing ==
    "Credentials file not found at " \o CREDENTIALS_PATH
        \o ". Please set up OAuth2 credentials from Google Cloud Console."

TokenMissing ==
    "Token file not found at " \o TOKEN_PATH
        \o ". Please run the authentication flow first."

\* destructuring undefined: neither credentials.installed nor credentials.web
DestructureError ==
    "Cannot destructure property 'client_secret' of '(intermediate value)' as it is undefined."

-----------------------------------------------------------------------------
(* The tool catalog and the dispatch table *)

\* const tools: the advertised names
ToolNames ==
    { "gmail_list_messages", "gmail_get_message", "gmail_send_message",
      "gmail_search", "gmail_modify_labels", "gmail_list_labels",
      "gmail_trash_message", "gmail_mark_as_read", "gmail_mark_as_unread",
      "gmail_get_thread", "gmail_reply", "gmail_create_draft",
      "gmail_list_drafts", "gmail_get_draft", "gmail_update_draft",
      "gmail_send_draft", "gmail_delete_draft", "gmail_get_attachment",
      "gmail_list_attachments", "gmail_archive_message",
      "gmail_unarchive_message", "gmail_untrash_message",
      "gmail_delete_message", "gmail_create_label", "gmail_update_label",
      "gmail_delete_label", "gmail_get_profile", "gmail_forward_message",
      "gmail_star_message", "gmail_unstar_message", "gmail_batch_modify",
      "gmail_batch_delete" }

\* inputSchema.required of each tool of the catalog
Required(name) ==
    CASE name \in {"gmail_list_messages", "gmail_list_labels",
                   "gmail_list_drafts", "gmail_get_profile"} -> {}
      [] name \in {"gmail_get_message", "gmail_modify_labels",
                   "gmail_trash_message", "gmail_mark_as_read",
                   "gmail_mark_as_unread", "gmail_list_attachments",
                   "gmail_archive_message", "gmail_unarchive_message",
                   "gmail_untrash_message", "gmail_delete_message",
                   "gmail_star_message", "gmail_unstar_message"} -> {"messageId"}
      [] name \in {"gmail_send_message", "gmail_create_draft"} -> {"to", "subject", "body"}
      [] name = "gmail_search" -> {"query"}
      [] name = "gmail_get_thread" -> {"threadId"}
      [] name = "gmail_reply" -> {"messageId", "body"}
      [] name \in {"gmail_get_draft", "gmail_send_draft", "gmail_delete_draft"} -> {"draftId"}
      [] name = "gmail_update_draft" -> {"draftId", "to", "subject", "body"}
      [] name = "gmail_get_attachment" -> {"messageId", "attachmentId"}
      [] name = "gmail_create_label" -> {"name"}
      [] name = "gmail_update_label" -> {"labelId", "name"}
      [] name = "gmail_delete_label" -> {"labelId"}
      [] name = "gmail_forward_message" -> {"messageId", "to"}
      [] name \in {"gmail_batch_modify", "gmail_batch_delete"} -> {"messageIds"}
      [] OTHER -> {}

\* switch (name): each case label with the handler method it calls
Cases ==
    {
      <<"gmail_list_messages", "listMessages">>,
      <<"gmail_get_message", "getMessage">>,
      <<"gmail_send_message", "sendMessage">>,
      <<"gmail_search", "searchMessages">>,
      <<"gmail_modify_labels", "modifyLabels">>,
      <<"gmail_list_labels", "listLabels">>,
      <<"gmail_trash_message", "trashMessage">>,
      <<"gmail_mark_as_read", "markAsRead">>,
      <<"gmail_mark_as_unread", "markAsUnread">>,
      <<"gmail_get_thread", "getThread">>,
      <<"gmail_reply", "replyToMessage">>,
      <<"gmail_create_draft", "createDraft">>,
      <<"gmail_list_drafts", "listDrafts">>,
      <<"gmail_get_draft", "getDraft">>,
      <<"gmail_update_draft", "updateDraft">>,
      <<"gmail_send_draft", "sendDraft">>,
      <<"gmail_delete_draft", "deleteDraft">>,
      <<"gmail_get_attachment", "getAttachment">>,
      <<"gmail_list_attachments", "listAttachments">>,
      <<"gmail_archive_message", "archiveMessage">>,
      <<"gmail_unarchive_message", "unarchiveMessage">>,
      <<"gmail_untrash_message", "untrashMessage">>,
      <<"gmail_delete_message", "deleteMessage">>,
      <<"gmail_create_label", "createLabel">>,
      <<"gmail_update_label", "updateLabel">>,
      <<"gmail_delete_label", "deleteLabel">>,
      <<"gmail_get_profile", "getProfile">>,
      <<"gmail_forward_message", "forwardMessage">>,
      <<"gmail_star_message", "starMessage">>,
      <<"gmail_unstar_message", "unstarMessage">>,
      <<"gmail_batch_modify", "batchModify">>,
      <<"gmail_batch_delete", "batchDelete">> }

\* a switch whose default falls into a handler instead of throwing
SwitchDefaultFallsThrough(name) ==
    IF \E p \in Cases : p[1] = name
    THEN (CHOOSE p \in Cases : p[1] = name)[2]
    ELSE "getProfile"

\* switch (name): the handler method called, "default" when no case matches
Switch(name) ==
    IF \E p \in Cases : p[1] = name
    THEN (CHOOSE p \in Cases : p[1] = name)[2]
    ELSE "default"

\* the upstream method a handler awaits first
FirstRequest(handler) ==
    CASE handler \in {"listMessages", "searchMessages"} -> "users.messages.list"
      [] handler \in {"getMessage", "replyToMessage", "forwardMessage",
                      "listAttachments"} -> "users.messages.get"
      [] handler = "sendMessage" -> "users.messages.send"
      [] handler \in {"modifyLabels", "markAsRead", "markAsUnread",
                      "archiveMessage", "unarchiveMessage", "starMessage",
                      "unstarMessage"} -> "users.messages.modify"
      [] handler = "listLabels" -> "users.labels.list"
      [] handler = "trashMessage" -> "users.messages.trash"
      [] handler = "untrashMessage" -> "users.messages.untrash"
      [] handler = "deleteMessage" -> "users.messages.delete"
      [] handler = "getThread" -> "users.threads.get"
      [] handler = "createDraft" -> "users.drafts.create"
      [] handler = "listDrafts" -> "users.drafts.list"
      [] handler = "getDraft" -> "users.drafts.get"
      [] handler = "updateDraft" -> "users.drafts.update"
      [] handler = "sendDraft" -> "users.drafts.send"
      [] handler = "deleteDraft" -> "users.drafts.delete"
      [] handler = "getAttachment" -> "users.messages.attachments.get"
      [] handler = "createLabel" -> "users.labels.create"
      [] handler = "updateLabel" -> "users.labels.update"
      [] handler = "deleteLabel" -> "users.labels.delete"
      [] handler = "getProfile" -> "users.getProfile"
      [] handler = "batchModify" -> "users.messages.batchModify"
      [] handler = "batchDelete" -> "users.messages.batchDelete"

\* upstream methods that change the mailbox
Mutations ==
    { "users.messages.send", "users.messages.modify", "users.messages.trash",
      "users.messages.untrash", "users.messages.delete",
      "users.messages.batchModify", "users.messages.batchDelete",
      "users.drafts.create", "users.drafts.update", "users.drafts.send",
      "users.drafts.delete", "users.labels.create", "users.labels.update",
      "users.labels.delete" }

\* handlers that list ids and then fetch each one: the detail method
DetailRequest(handler) ==
    CASE handler \in {"listMessages", "searchMessages"} -> "users.messages.get"
      [] handler = "listDrafts" -> "users.drafts.get"
      [] OTHER -> ""

\* only replyToMessage sends after its fetch
FetchThenSendReplyOnly == {"replyToMessage"}

\* handlers that fetch the original message and then send
FetchThenSend == {"replyToMessage", "forwardMessage"}

\* messageIds.length on an argument bag without messageIds
LengthOfUndefined ==
    "Cannot read properties of undefined (reading 'length')"

-----------------------------------------------------------------------------
(* Envelopes *)

NoEnvelope == [content |-> <<>>, isError |-> "none"]

\* the handlers' return value: { content: [{ type: "text", text }] }, no isError key
HandlerResult(handler) ==
    [content |-> << [type |-> "text", text |-> "JSON(" \o handler \o ")"] >>,
     isError |-> "absent"]

\* the catch returning the envelope without the isError flag
CatchEnvelopeNoFlag(message) ==
    [content |-> << [type |-> "text", text |-> "Error: " \o message] >>,
     isError |-> "absent"]

\* the catch rendering the Error object instead of its message
CatchEnvelopeStringOfError(message) ==
    [content |-> << [type |-> "text", text |-> "Error: Error: " \o message] >>,
     isError |-> "true"]

\* catch (error): { content: [{ type: "text", text: `Error: ${message}` }], isError: true }
CatchEnvelope(message) ==
    [content |-> << [type |-> "text", text |-> "Error: " \o message] >>,
     isError |-> "true"]

-----------------------------------------------------------------------------
(* The MIME codec: text is a sequence of characters, a Buffer a sequence of
   bytes. The model covers ASCII text, where UTF-8 is one byte per character. *)

\* the printable ASCII characters, from code 32 to code 126 ("grave" stands
\* for the grave accent, code 96)
Printable ==
    << " ", "!", "\"", "#", "$", "%", "&", "'", "(", ")", "*", "+", ",",
       "-", ".", "/", "0", "1", "2", "3", "4", "5", "6", "7", "8", "9",
       ":", ";", "<", "=", ">", "?", "@", "A", "B", "C", "D", "E", "F",
       "G", "H", "I", "J", "K", "L", "M", "N", "O", "P", "Q", "R", "S",
       "T", "U", "V", "W", "X", "Y", "Z", "[", "\\", "]", "^", "_", "grave",
       "a", "b", "c", "d", "e", "f", "g", "h", "i", "j", "k", "l", "m",
       "n", "o", "p", "q", "r", "s", "t", "u", "v", "w", "x", "y", "z",
       "{", "|", "}", "~" >>

\* the base64 alphabet, from sextet 0 to sextet 63
Base64Alphabet ==
    << "A", "B", "C", "D", "E", "F", "G", "H", "I", "J", "K", "L", "M",
       "N", "O", "P", "Q", "R", "S", "T", "U", "V", "W", "X", "Y", "Z",
       "a", "b", "c", "d", "e", "f", "g", "h", "i", "j", "k", "l", "m",
       "n", "o", "p", "q", "r", "s", "t", "u", "v", "w", "x", "y", "z",
       "0", "1", "2", "3", "4", "5", "6", "7", "8", "9", "+", "/" >>

\* Buffer.from(message): the byte of a character
CharCode(ch) ==
    CASE ch = "\r" -> 13
      [] ch = "\n" -> 10
      [] OTHER -> 31 + (CHOOSE i \in 1..Len(Printable) : Printable[i] = ch)

\* Buffer.toString("utf-8"): the character of a byte
CharOf(byte) ==
    CASE byte = 13 -> "\r"
      [] byte = 10 -> "\n"
      [] byte \in 32..126 -> Printable[byte - 31]
      [] OTHER -> "?"

Bytes(text) == [i \in 1..Len(text) |-> CharCode(text[i])]

TextOf(bytes) == [i \in 1..Len(bytes) |-> CharOf(bytes[i])]

\* Buffer.toString("base64"): three bytes to four characters, padded with "="
ToBase64(bytes) ==
    LET n == Len(bytes)
        At(i) == IF i <= n THEN bytes[i] ELSE 0
        Quad(g) ==
            LET b1 == At(3 * g + 1)
                b2 == At(3 * g + 2)
                b3 == At(3 * g + 3) IN
            << Base64Alphabet[(b1 \div 4) + 1],
               Base64Alphabet[((b1 % 4) * 16 + (b2 \div 16)) + 1],
               IF 3 * g + 2 <= n
                   THEN Base64Alphabet[((b2 % 16) * 4 + (b3 \div 64)) + 1] ELSE "=",
               IF 3 * g + 3 <= n
                   THEN Base64Alphabet[(b3 % 64) + 1] ELSE "=" >>
    IN [i \in 1..(4 * ((n + 2) \div 3)) |-> Quad((i - 1) \div 4)[((i - 1) % 4) + 1]]

\* the sextet of a base64 character; Buffer.from(s, "base64") also takes the
\* URL-safe "-" and "_"
Sextet(ch) ==
    CASE ch = "-" -> 62
      [] ch = "_" -> 63
      [] OTHER -> (CHOOSE i \in 1..64 : Base64Alphabet[i] = ch) - 1

\* Buffer.from(s, "base64"): four characters to three bytes; the input ends at
\* the first "=", and needs no padding
FromBase64(chars) ==
    LET pads == {i \in 1..Len(chars) : chars[i] = "="}
        n == IF pads = {} THEN Len(chars)
             ELSE (CHOOSE i \in pads : \A j \in pads : i <= j) - 1
        At(i) == IF i <= n THEN Sextet(chars[i]) ELSE 0
        ByteAt(j) ==
            LET g == (j - 1) \div 3
                s1 == At(4 * g + 1)
                s2 == At(4 * g + 2)
                s3 == At(4 * g + 3)
                s4 == At(4 * g + 4) IN
            CASE (j - 1) % 3 = 0 -> s1 * 4 + (s2 \div 16)
              [] (j - 1) % 3 = 1 -> (s2 % 16) * 16 + (s3 \div 4)
              [] OTHER -> (s3 % 4) * 64 + s4
    IN [j \in 1..((n * 6) \div 8) |-> ByteAt(j)]

\* String.replace(/x/g, y)
ReplaceAll(text, from, to) ==
    [i \in 1..Len(text) |-> IF text[i] = from THEN to ELSE text[i]]

\* String.replace(/=+$/, "")
StripPadding(text) ==
    LET kept == {i \in 1..Len(text) : text[i] # "="} IN
    IF kept = {} THEN <<>>
    ELSE SubSeq(text, 1, CHOOSE i \in kept : \A j \in kept : j <= i)

\* decodeBase64(data)
DecodeBase64(data) ==
    TextOf(FromBase64(ReplaceAll(ReplaceAll(data, "-", "+"), "_", "/")))

\* an argument that was not passed
\* the value undefined: a one-element tuple that is no text (a text holds
\* single characters only)
Undefined == << "undefined" >>

UndefinedText ==
    << "u", "n", "d", "e", "f", "i", "n", "e", "d" >>

\* `${value}` in a template literal
Interpolate(value) == IF value = Undefined THEN UndefinedText ELSE value

\* if (value): undefined and the empty string are falsy
Truthy(value) == value # Undefined /\ value # <<>>

CRLF ==
    << "\r", "\n" >>

ToPrefix ==
    << "T", "o", ":", " " >>

SubjectPrefix ==
    << "S", "u", "b", "j", "e", "c", "t", ":", " " >>

ContentTypeLine ==
    << "C", "o", "n", "t", "e", "n", "t", "-", "T", "y", "p", "e", ":",
       " ", "t", "e", "x", "t", "/", "p", "l", "a", "i", "n", ";", " ",
       "c", "h", "a", "r", "s", "e", "t", "=", "u", "t", "f", "-", "8" >>

CcPrefix ==
    << "C", "c", ":", " " >>

BccPrefix ==
    << "B", "c", "c", ":", " " >>

ReferencesPrefix ==
    << "R", "e", "f", "e", "r", "e", "n", "c", "e", "s", ":", " " >>

InReplyToPrefix ==
    << "I", "n", "-", "R", "e", "p", "l", "y", "-", "T", "o", ":", " " >>

\* Array.join(separator): undefined elements are joined as empty strings
RECURSIVE Join(_, _)
Join(parts, separator) ==
    IF Len(parts) = 0 THEN <<>>
    ELSE LET first == IF Head(parts) = Undefined THEN <<>> ELSE Head(parts) IN
         IF Len(parts) = 1 THEN first
         ELSE first \o separator \o Join(Tail(parts), separator)

\* messageParts with the Bcc line pushed before the Cc line
MessagePartsBccFirst(to, subject, body, cc, bcc, threadId, references, inReplyTo) ==
    << ToPrefix \o Interpolate(to),
       SubjectPrefix \o Interpolate(subject),
       ContentTypeLine >>
    \o (IF Truthy(bcc) THEN << BccPrefix \o bcc >> ELSE <<>>)
    \o (IF Truthy(cc) THEN << CcPrefix \o cc >> ELSE <<>>)
    \o (IF Truthy(references) THEN << ReferencesPrefix \o references >> ELSE <<>>)
    \o (IF Truthy(inReplyTo) THEN << InReplyToPrefix \o inReplyTo >> ELSE <<>>)
    \o << <<>>, body >>

\* createRawMessage's messageParts, before the join
MessageParts(to, subject, body, cc, bcc, threadId, references, inReplyTo) ==
    << ToPrefix \o Interpolate(to),
       SubjectPrefix \o Interpolate(subject),
       ContentTypeLine >>
    \o (IF Truthy(cc) THEN << CcPrefix \o cc >> ELSE <<>>)
    \o (IF Truthy(bcc) THEN << BccPrefix \o bcc >> ELSE <<>>)
    \o (IF Truthy(references) THEN << ReferencesPrefix \o references >> ELSE <<>>)
    \o (IF Truthy(inReplyTo) THEN << InReplyToPrefix \o inReplyTo >> ELSE <<>>)
    \o << <<>>, body >>

\* createRawMessage(to, subject, body, cc, bcc, threadId, references, inReplyTo)
CreateRawMessage(to, subject, body, cc, bcc, threadId, references, inReplyTo) ==
    LET message ==
            Join(MessageParts(to, subject, body, cc, bcc, threadId, references, inReplyTo),
                 CRLF) IN
    StripPadding(
        ReplaceAll(ReplaceAll(ToBase64(Bytes(message)), "+", "-"), "/", "_"))

-----------------------------------------------------------------------------
(* The credential lifecycle: initializeGmail *)

\* the value initializeGmail leaves behind: the two fields, the error it threw
\* (NoError when it returned) and the file-system calls it made
InitResult(g, o, e, fs) == [gmail |-> g, oauth2Client |-> o, error |-> e, fs |-> fs]

\* initializeGmail with the token check dropped: it returns without a session
InitializeGmailNoTokenCheck(c) ==
    IF gmail # 0 THEN InitResult(gmail, oauth2Client, NoError, <<>>)
    ELSE IF credFile = "absent"
        THEN InitResult(0, oauth2Client, CredentialsMissing, <<"existsSync(CREDENTIALS_PATH)">>)
    ELSE IF credFile = "neither"
        THEN InitResult(0, oauth2Client, DestructureError,
                 <<"existsSync(CREDENTIALS_PATH)", "readFileSync(CREDENTIALS_PATH)">>)
    ELSE IF tokenFile
        THEN InitResult(gmail + 1, 1, NoError,
                 <<"existsSync(CREDENTIALS_PATH)", "readFileSync(CREDENTIALS_PATH)",
                   "existsSync(TOKEN_PATH)", "readFileSync(TOKEN_PATH)">>)
    ELSE InitResult(0, 1, NoError,
                 <<"existsSync(CREDENTIALS_PATH)", "readFileSync(CREDENTIALS_PATH)",
                   "existsSync(TOKEN_PATH)">>)

\* initializeGmail without the `if (this.gmail) return` guard
InitializeGmailNoMemo(c) ==
    IF credFile = "absent"
        THEN InitResult(gmail, oauth2Client, CredentialsMissing, <<"existsSync(CREDENTIALS_PATH)">>)
    ELSE IF credFile = "neither"
        THEN InitResult(gmail, oauth2Client, DestructureError,
                 <<"existsSync(CREDENTIALS_PATH)", "readFileSync(CREDENTIALS_PATH)">>)
    ELSE IF tokenFile
        THEN InitResult(gmail + 1, 1, NoError,
                 <<"existsSync(CREDENTIALS_PATH)", "readFileSync(CREDENTIALS_PATH)",
                   "existsSync(TOKEN_PATH)", "readFileSync(TOKEN_PATH)">>)
    ELSE InitResult(gmail, 1, TokenMissing,
                 <<"existsSync(CREDENTIALS_PATH)", "readFileSync(CREDENTIALS_PATH)",
                   "existsSync(TOKEN_PATH)">>)

\* initializeGmail memoized on the client instead of the session: `if (this.oauth2Client) return`
InitializeGmailMemoClient(c) ==
    IF oauth2Client # 0 THEN InitResult(gmail, oauth2Client, NoError, <<>>)
    ELSE IF credFile = "absent"
        THEN InitResult(0, oauth2Client, CredentialsMissing, <<"existsSync(CREDENTIALS_PATH)">>)
    ELSE IF credFile = "neither"
        THEN InitResult(0, oauth2Client, DestructureError,
                 <<"existsSync(CREDENTIALS_PATH)", "readFileSync(CREDENTIALS_PATH)">>)
    ELSE IF tokenFile
        THEN InitResult(gmail + 1, 1, NoError,
                 <<"existsSync(CREDENTIALS_PATH)", "readFileSync(CREDENTIALS_PATH)",
                   "existsSync(TOKEN_PATH)", "readFileSync(TOKEN_PATH)">>)
    ELSE InitResult(0, 1, TokenMissing,
                 <<"existsSync(CREDENTIALS_PATH)", "readFileSync(CREDENTIALS_PATH)",
                   "existsSync(TOKEN_PATH)">>)

\* initializeGmail writing the token back to the token file after reading it
InitializeGmailSavesToken(c) ==
    IF gmail # 0 THEN InitResult(gmail, oauth2Client, NoError, <<>>)
    ELSE IF credFile = "absent"
        THEN InitResult(0, oauth2Client, CredentialsMissing, <<"existsSync(CREDENTIALS_PATH)">>)
    ELSE IF credFile = "neither"
        THEN InitResult(0, oauth2Client, DestructureError,
                 <<"existsSync(CREDENTIALS_PATH)", "readFileSync(CREDENTIALS_PATH)">>)
    ELSE IF tokenFile
        THEN InitResult(gmail + 1, 1, NoError,
                 <<"existsSync(CREDENTIALS_PATH)", "readFileSync(CREDENTIALS_PATH)",
                   "existsSync(TOKEN_PATH)", "readFileSync(TOKEN_PATH)",
                   "writeFileSync(TOKEN_PATH)">>)
    ELSE InitResult(0, 1, TokenMissing,
                 <<"existsSync(CREDENTIALS_PATH)", "readFileSync(CREDENTIALS_PATH)",
                   "existsSync(TOKEN_PATH)">>)

\* initializeGmail as run for call c. It has no await: it runs to its return or
\* throw in one step.
InitializeGmail(c) ==
    IF gmail # 0 THEN InitResult(gmail, oauth2Client, NoError, <<>>)
    ELSE IF credFile = "absent"
        THEN InitResult(0, oauth2Client, CredentialsMissing, <<"existsSync(CREDENTIALS_PATH)">>)
    ELSE IF credFile = "neither"
        THEN InitResult(0, oauth2Client, DestructureError,
                 <<"existsSync(CREDENTIALS_PATH)", "readFileSync(CREDENTIALS_PATH)">>)
    ELSE IF tokenFile
        THEN InitResult(gmail + 1, 1, NoError,
                 <<"existsSync(CREDENTIALS_PATH)", "readFileSync(CREDENTIALS_PATH)",
                   "existsSync(TOKEN_PATH)", "readFileSync(TOKEN_PATH)">>)
    ELSE InitResult(0, 1, TokenMissing,
                 <<"existsSync(CREDENTIALS_PATH)", "readFileSync(CREDENTIALS_PATH)",
                   "existsSync(TOKEN_PATH)">>)

-----------------------------------------------------------------------------
(* Tool calls *)

CallIds == 1..MaxCalls

\* pc: "idle" not yet delivered, "init" awaiting initializeGmail's promise,
\* "upstream" suspended in a handler at an await, "done" the async handler has
\* completed (the state of the call in `outcome`), "closed" its promise has
\* settled and the transport has been handed the outcome
IdleCall ==
    [pc |-> "idle", name |-> "", args |-> {}, initError |-> NoError,
     handler |-> "", issued |-> <<>>, remaining |-> 0,
     origin |-> "", thrown |-> NoError, escaped |-> FALSE, envelope |-> NoEnvelope]

ClosedCall == [IdleCall EXCEPT !.pc = "closed"]

NoOutcome == [call |-> 0, record |-> IdleCall]

\* the names the transport delivers in this model: one per shape of handler,
\* and one that is in no case of the switch
CallNames ==
    { "gmail_list_messages", "gmail_send_message", "gmail_reply",
      "gmail_batch_delete", "gmail_summarize" }

\* the argument bags delivered for a name, as the set of argument names they
\* hold: all the required ones, or none (arguments defaults to {})
ArgBags(name) == {Required(name), {}}

\* messages of the errors the upstream client rejects with
UpstreamMessages == {"Requested entity was not found.", "Invalid Credentials"}

\* the CallTool handler without its catch: the error leaves the handler
TryCatchRethrow(threw, message, value) ==
    IF threw THEN [escaped |-> TRUE, envelope |-> NoEnvelope]
    ELSE [escaped |-> FALSE, envelope |-> value]

\* try { ... return value } catch (error) { return the error envelope }
TryCatch(threw, message, value) ==
    IF threw THEN [escaped |-> FALSE, envelope |-> CatchEnvelope(message)]
    ELSE [escaped |-> FALSE, envelope |-> value]

\* call c's handler throws message (origin says where) 
Throw(c, origin, message) ==
    LET out == TryCatch(TRUE, message, NoEnvelope) IN
    [calls[c] EXCEPT !.pc = "done", !.origin = origin, !.thrown = message,
                     !.escaped = out.escaped, !.envelope = out.envelope,
                     !.remaining = 0]

\* call c's handler returns
Return(c) ==
    LET out == TryCatch(FALSE, NoError, HandlerResult(calls[c].handler)) IN
    [calls[c] EXCEPT !.pc = "done", !.escaped = out.escaped,
                     !.envelope = out.envelope]

\* the async handler of call c settles with record rec: the transport is
\* handed its outcome
Complete(c, rec) ==
    /\ calls' = [calls EXCEPT ![c] = ClosedCall]
    /\ outcome' = [call |-> c, record |-> rec]

\* this.gmail!.users with this.gmail null
NullSession == "Cannot read properties of null (reading 'users')"

\* the requests in flight after call c issues the upstream methods in apis
Issue(c, apis, from) ==
    from \cup { [call |-> c, api |-> apis[i], seq |-> Len(calls[c].issued) + i] :
                   i \in 1..Len(apis) }

\* the list-then-detail loop fetching every listed id at once
DetailLoopAllAtOnce(handler, remaining) ==
    [apis |-> [i \in 1..remaining |-> DetailRequest(handler)], remaining |-> 0]

\* for (const x of listed) { await get(x) ... }: the requests the loop issues
\* before it is suspended again, and the ids left after them
DetailLoop(handler, remaining) ==
    IF remaining > 0
    THEN [apis |-> <<DetailRequest(handler)>>, remaining |-> remaining - 1]
    ELSE [apis |-> <<>>, remaining |-> 0]

\* the transport delivers a tools/call request: the handler runs
\* initializeGmail and is suspended at `await this.initializeGmail()`
CallTool(c, name, args) ==
    /\ calls[c].pc = "idle"
    /\ \A d \in CallIds : d < c => calls[d].pc # "idle"
    /\ LET r == InitializeGmail(c) IN
        /\ gmail' = r.gmail
        /\ oauth2Client' = r.oauth2Client
        /\ fsTrace' = r.fs
        /\ delivered' = c
        /\ outcome' = NoOutcome
        /\ calls' = [calls EXCEPT ![c] =
               [IdleCall EXCEPT !.pc = "init", !.name = name, !.args = args,
                                !.initError = r.error]]
    /\ UNCHANGED <<credFile, tokenFile, inflight, codec, partTree, compose, labels, toolingVars>>

\* the await on initializeGmail completes: its error goes to the catch, else
\* the switch picks the handler, which runs to its first await
Dispatch(c) ==
    /\ calls[c].pc = "init"
    /\ fsTrace' = <<>>
    /\ delivered' = 0
    /\ IF calls[c].initError # NoError
       THEN /\ Complete(c, Throw(c, "init", calls[c].initError))
            /\ UNCHANGED inflight
       ELSE LET h == Switch(calls[c].name) IN
            IF h = "default"
            THEN /\ Complete(c, Throw(c, "switch", "Unknown tool: " \o calls[c].name))
                 /\ UNCHANGED inflight
            ELSE IF gmail = 0
            THEN \* this.gmail!.users on a null session
                 /\ Complete(c, [Throw(c, "handler", NullSession) EXCEPT !.handler = h])
                 /\ UNCHANGED inflight
            ELSE /\ calls' = [calls EXCEPT ![c] =
                        [calls[c] EXCEPT !.pc = "upstream", !.handler = h,
                                         !.issued = <<FirstRequest(h)>>]]
                 /\ inflight' = Issue(c, <<FirstRequest(h)>>, inflight)
                 /\ outcome' = NoOutcome
    /\ UNCHANGED <<credFile, tokenFile, oauth2Client, gmail, codec, partTree, compose, labels, toolingVars>>

\* the handler of call c goes on after an await has resolved, with `remaining`
\* listed ids still to fetch
Continue(c, remaining, rest) ==
    LET h == calls[c].handler
        k == Len(calls[c].issued) IN
    IF DetailRequest(h) # ""
    THEN LET step == DetailLoop(h, remaining) IN
         IF Len(step.apis) > 0
         THEN /\ calls' = [calls EXCEPT ![c] =
                     [calls[c] EXCEPT !.issued = @ \o step.apis,
                                      !.remaining = step.remaining]]
              /\ inflight' = Issue(c, step.apis, rest)
              /\ outcome' = NoOutcome
         ELSE /\ Complete(c, [Return(c) EXCEPT !.remaining = 0])
              /\ inflight' = rest
    ELSE IF h \in FetchThenSend /\ k = 1
    THEN /\ calls' = [calls EXCEPT ![c] =
                [calls[c] EXCEPT !.issued = @ \o <<"users.messages.send">>]]
         /\ inflight' = Issue(c, <<"users.messages.send">>, rest)
         /\ outcome' = NoOutcome
    ELSE IF h \in {"batchModify", "batchDelete"} /\ "messageIds" \notin calls[c].args
    THEN /\ Complete(c, Throw(c, "handler", LengthOfUndefined))
         /\ inflight' = rest
    ELSE /\ Complete(c, Return(c))
         /\ inflight' = rest

\* an upstream request resolves; a list request resolves with n ids
UpstreamResolve(r, n) ==
    /\ r \in inflight
    /\ calls[r.call].pc = "upstream"
    /\ LET c == r.call
           h == calls[c].handler
           isList == DetailRequest(h) # "" /\ r.seq = 1
           rest == inflight \ {r} IN
        /\ n > 0 => isList
        /\ IF \E q \in rest : q.call = c
           THEN \* other requests of the call are still awaited
                /\ calls' = calls
                /\ inflight' = rest
                /\ outcome' = NoOutcome
           ELSE Continue(c, IF isList THEN n ELSE calls[c].remaining, rest)
    /\ fsTrace' = <<>>
    /\ delivered' = 0
    /\ UNCHANGED <<credFile, tokenFile, oauth2Client, gmail, codec, partTree, compose, labels, toolingVars>>

\* an upstream request rejects with an Error whose message is m
UpstreamReject(r, m) ==
    /\ r \in inflight
    /\ calls[r.call].pc = "upstream"
    /\ Complete(r.call, Throw(r.call, "upstream", m))
    /\ inflight' = inflight \ {r}
    /\ fsTrace' = <<>>
    /\ delivered' = 0
    /\ UNCHANGED <<credFile, tokenFile, oauth2Client, gmail, codec, partTree, compose, labels, toolingVars>>

\* the environment writes or removes the credentials file
SetCredFile(v) ==
    /\ v # credFile
    /\ credFile' = v
    /\ fsTrace' = <<>>
    /\ delivered' = 0
    /\ outcome' = NoOutcome
    /\ UNCHANGED <<tokenFile, oauth2Client, gmail, calls, inflight, codec, partTree, compose, labels, toolingVars>>

\* the environment writes or removes the token file
SetTokenFile(b) ==
    /\ b # tokenFile
    /\ tokenFile' = b
    /\ fsTrace' = <<>>
    /\ delivered' = 0
    /\ outcome' = NoOutcome
    /\ UNCHANGED <<credFile, oauth2Client, gmail, calls, inflight, codec, partTree, compose, labels, toolingVars>>

NoCodec == <<>>

\* getMessageBody and getAttachments are not running
NoPartTree == <<>>

\* replyToMessage and forwardMessage are not running
NoCompose == <<>>

\* no label tool is running
NoLabels == <<>>

\* no catalog request is running
NoCatalog == <<>>

\* the cleanup script is not running
NoCleanup == <<>>

\* the authentication helper is not running
NoAuth == <<>>

Init ==
    /\ credFile \in CredStates
    /\ tokenFile \in BOOLEAN
    /\ oauth2Client = 0
    /\ gmail = 0
    /\ calls = [c \in CallIds |-> IdleCall]
    /\ inflight = {}
    /\ fsTrace = <<>>
    /\ delivered = 0
    /\ outcome = NoOutcome
    /\ codec = NoCodec
    /\ partTree = NoPartTree
    /\ compose = NoCompose
    /\ labels = NoLabels
    /\ catalog = NoCatalog
    /\ cleanup = NoCleanup
    /\ auth = NoAuth

Next ==
    \/ \E c \in CallIds, name \in CallNames : \E args \in ArgBags(name) : CallTool(c, name, args)
    \/ \E c \in CallIds : Dispatch(c)
    \/ \E r \in inflight, n \in 0..MaxItems : UpstreamResolve(r, n)
    \/ \E r \in inflight, m \in UpstreamMessages : UpstreamReject(r, m)
    \/ \E v \in CredStates : SetCredFile(v)
    \/ \E b \in BOOLEAN : SetTokenFile(b)

Spec == Init /\ [][Next]_vars

-----------------------------------------------------------------------------
(* Properties of the dispatcher *)

Requests(c) == {r \in inflight : r.call = c}

\* the record of call c: the one handed to the transport in the step that
\* completed it, its current state otherwise
Call(c) == IF outcome.call = c THEN outcome.record ELSE calls[c]

Suspended(c) == calls[c].pc = "upstream"

Completed(c) == outcome.call = c /\ outcome.record.pc = "done"

Failed(c) == Call(c).thrown # NoError

ErrorText(message) == << [type |-> "text", text |-> "Error: " \o message] >>

\* C1: a handler is entered, and an upstream request issued, only with the
\* session established; a call whose initializeGmail threw enters no handler,
\* issues no request and completes with an error envelope.
C1_NoHandlerWithoutSession ==
    \A c \in CallIds :
        /\ (Call(c).handler # "" \/ Call(c).issued # <<>> \/ Requests(c) # {})
               => gmail # 0
        /\ Call(c).initError # NoError
               => /\ Call(c).handler = ""
                  /\ Call(c).issued = <<>>
                  /\ Requests(c) = {}
                  /\ ~Suspended(c)
                  /\ Completed(c) => Call(c).envelope.isError = "true"

C1_Witness ==
    \E c \in CallIds :
        /\ Completed(c)
        /\ Call(c).initError = TokenMissing
        /\ Call(c).issued = <<>>
        /\ Call(c).envelope.isError = "true"

\* C2: no error leaves the CallTool handler: every completed call holds an
\* envelope, with isError true when something was thrown at session set-up, at
\* the name lookup or in the handler; a call that is not completed can still
\* move on (it awaits initializeGmail or exactly the requests in flight).
C2_EveryCallReturnsEnvelope ==
    \A c \in CallIds :
        /\ ~Call(c).escaped
        /\ Completed(c)
               => /\ Call(c).envelope # NoEnvelope
                  /\ Len(Call(c).envelope.content) >= 1
                  /\ Failed(c) => Call(c).envelope.isError = "true"
        /\ Suspended(c) => Requests(c) # {}

C2_Witness ==
    \E c \in CallIds :
        /\ Completed(c)
        /\ Call(c).origin = "upstream"
        /\ Call(c).handler = "listMessages"
        /\ Len(Call(c).issued) >= 2
        /\ ~Call(c).escaped
        /\ Call(c).envelope.isError = "true"

\* C3: once the session handle is set, no step reassigns it or the client, no
\* step touches the two files, and every call delivered passes the session
\* step, whatever the state of the files.
C3_SessionMemoized ==
    [][gmail # 0 =>
          /\ gmail' = gmail
          /\ oauth2Client' = oauth2Client
          /\ fsTrace' = <<>>
          /\ \A c \in CallIds :
                 (calls[c].pc = "idle" /\ calls'[c].pc # "idle")
                     => /\ calls'[c].pc = "init"
                        /\ calls'[c].initError = NoError]_vars

C3_Witness ==
    \E c \in CallIds :
        /\ delivered = c
        /\ gmail = 1
        /\ credFile = "absent"
        /\ ~tokenFile
        /\ fsTrace = <<>>
        /\ Call(c).initError = NoError

C5_OneCallAtATime ==
    \A c, d \in CallIds :
        c # d => ~(Suspended(c) /\ Suspended(d))

\* C5 as amended: within one call the upstream requests are strictly
\* sequential: a suspended call awaits exactly one request, the last one it
\* issued, and a call that is not suspended awaits none. (Calls themselves
\* are not serialized.)
C5_SequentialWithinCall ==
    \A c \in CallIds :
        IF Suspended(c)
        THEN Requests(c) =
                 { [call |-> c, api |-> Call(c).issued[Len(Call(c).issued)],
                    seq |-> Len(Call(c).issued)] }
        ELSE Requests(c) = {}

C5_Witness ==
    \E c, d \in CallIds :
        /\ c # d
        /\ Suspended(c)
        /\ Suspended(d)
        /\ Call(c).handler = "listMessages"
        /\ Len(Call(c).issued) = 3
        /\ Cardinality(inflight) = 2

\* C6 as claimed: a call whose argument bag lacks a required argument enters
\* no handler and issues no upstream mutation.
C6_ValidationBeforeHandler ==
    \A c \in CallIds :
        (Call(c).pc # "idle" /\ ~(Required(Call(c).name) \subseteq Call(c).args))
            => /\ Call(c).handler = ""
               /\ \A i \in 1..Len(Call(c).issued) : Call(c).issued[i] \notin Mutations

\* C7: with the session established, completing the dispatch of a name that
\* is in no case of the switch yields the error envelope naming it, issues no
\* upstream request and changes no other state of the server.
C7_UnknownTool ==
    [][\A c \in CallIds :
          ( /\ calls[c].pc = "init"
            /\ calls'[c].pc # "init"
            /\ gmail # 0
            /\ calls[c].initError = NoError
            /\ \A p \in Cases : p[1] # calls[c].name )
          => /\ calls'[c].pc = "closed"
             /\ outcome'.call = c
             /\ outcome'.record.pc = "done"
             /\ outcome'.record.envelope =
                    [content |-> << [type |-> "text",
                                     text |-> "Error: Unknown tool: " \o calls[c].name] >>,
                     isError |-> "true"]
             /\ outcome'.record.handler = ""
             /\ outcome'.record.issued = <<>>
             /\ inflight' = inflight
             /\ gmail' = gmail
             /\ oauth2Client' = oauth2Client
             /\ fsTrace' = <<>>
             /\ \A d \in CallIds \ {c} : calls'[d] = calls[d]]_vars

C7_Witness ==
    \E c \in CallIds :
        /\ Completed(c)
        /\ gmail # 0
        /\ Call(c).name = "gmail_summarize"
        /\ Call(c).envelope.content =
               << [type |-> "text", text |-> "Error: Unknown tool: gmail_summarize"] >>
        /\ Call(c).envelope.isError = "true"
        /\ Call(c).issued = <<>>

\* C8 as claimed: a call whose handler completes without throwing carries
\* isError = false, and isError is true exactly when the call failed.
C8_SuccessCarriesIsErrorFalse ==
    \A c \in CallIds :
        Completed(c)
            => /\ ~Failed(c) => Call(c).envelope.isError = "false"
               /\ Call(c).envelope.isError = "true" <=> Failed(c)

\* C8 as amended: a call whose handler completes without throwing returns
\* its content list with no isError key at all; isError is present, and true,
\* exactly when the call failed.
C8_SuccessHasNoIsError ==
    \A c \in CallIds :
        Completed(c)
            => /\ ~Failed(c)
                   => /\ Call(c).envelope.isError = "absent"
                      /\ Len(Call(c).envelope.content) = 1
               /\ Call(c).envelope.isError = "true" <=> Failed(c)
               /\ Call(c).envelope.isError \in {"absent", "true"}

C8_Witness ==
    \E c \in CallIds :
        /\ Completed(c)
        /\ ~Failed(c)
        /\ Call(c).handler = "replyToMessage"
        /\ Call(c).issued = <<"users.messages.get", "users.messages.send">>
        /\ Call(c).envelope =
               [content |-> << [type |-> "text", text |-> "JSON(replyToMessage)"] >>,
                isError |-> "absent"]

\* C9 as claimed: the envelope of a call whose upstream request failed with
\* message M has exactly one text item whose text is M verbatim.
C9_UpstreamMessageVerbatim ==
    \A c \in CallIds :
        (Completed(c) /\ Call(c).origin = "upstream")
            => /\ Call(c).envelope.content =
                      << [type |-> "text", text |-> Call(c).thrown] >>
               /\ Call(c).envelope.isError = "true"

\* C9 as amended: the envelope of a call whose upstream request failed with
\* message M has exactly one text item, whose text is "Error: " followed by M
\* unchanged, and isError = true.
C9_UpstreamMessagePrefixed ==
    \A c \in CallIds :
        (Completed(c) /\ Call(c).origin = "upstream")
            => /\ Call(c).thrown \in UpstreamMessages
               /\ Len(Call(c).envelope.content) = 1
               /\ Call(c).envelope.content[1] =
                      [type |-> "text", text |-> "Error: " \o Call(c).thrown]
               /\ Call(c).envelope.isError = "true"

C9_Witness ==
    \E c \in CallIds :
        /\ Completed(c)
        /\ Call(c).origin = "upstream"
        /\ Call(c).thrown = "Invalid Credentials"
        /\ Call(c).envelope.content =
               << [type |-> "text", text |-> "Error: Invalid Credentials"] >>

-----------------------------------------------------------------------------
(* The codec specification: createRawMessage applied to bounded inputs, and
   its output decoded with decodeBase64 *)

\* length of the generated header values
MaxStrLen == 2

\* the characters of the generated header values
CodecChars == {"a", "\r", "\n"}

Texts(n) == UNION { [1..k -> CodecChars] : k \in 0..n }

ToValues == Texts(MaxStrLen)

SubjectValues == { <<"H", "i">>, <<"R", "e", ":", " ", "H", "i">> }

BodyValues == { <<>>, <<"o", "k">>, <<"a", "\r", "\n", "\r", "\n", "b">> }

CcValues == { Undefined, <<>>, <<"c", "@", "x">> }

BccValues == { Undefined, <<"b", "@", "x">> }

ThreadIdValues == { Undefined, <<"t", "1">> }

ReferencesValues == { Undefined, <<"<", "r", ">">> }

InReplyToValues == { Undefined, <<"<", "m", ">">> }

CodecInit ==
    /\ credFile = "absent"
    /\ tokenFile = FALSE
    /\ oauth2Client = 0
    /\ gmail = 0
    /\ calls = [c \in CallIds |-> IdleCall]
    /\ inflight = {}
    /\ fsTrace = <<>>
    /\ delivered = 0
    /\ outcome = NoOutcome
    /\ partTree = NoPartTree
    /\ compose = NoCompose
    /\ labels = NoLabels
    /\ catalog = NoCatalog
    /\ cleanup = NoCleanup
    /\ auth = NoAuth
    /\ \E to \in ToValues, subject \in SubjectValues, body \in BodyValues,
          cc \in CcValues, bcc \in BccValues, threadId \in ThreadIdValues,
          references \in ReferencesValues, inReplyTo \in InReplyToValues :
           codec = [pc |-> "input", to |-> to, subject |-> subject, body |-> body,
                    cc |-> cc, bcc |-> bcc, threadId |-> threadId,
                    references |-> references, inReplyTo |-> inReplyTo,
                    raw |-> <<>>, decoded |-> <<>>]

\* raw = this.createRawMessage(...)
Encode ==
    /\ codec.pc = "input"
    /\ codec' = [codec EXCEPT
           !.pc = "encoded",
           !.raw = CreateRawMessage(codec.to, codec.subject, codec.body, codec.cc,
                                    codec.bcc, codec.threadId, codec.references,
                                    codec.inReplyTo)]
    /\ UNCHANGED <<dispatcherVars, partTree, compose, labels, toolingVars>>

\* this.decodeBase64(raw)
Decode ==
    /\ codec.pc = "encoded"
    /\ codec' = [codec EXCEPT !.pc = "decoded", !.decoded = DecodeBase64(codec.raw)]
    /\ UNCHANGED <<dispatcherVars, partTree, compose, labels, toolingVars>>

CodecNext == Encode \/ Decode

CodecSpec == CodecInit /\ [][CodecNext]_vars

-----------------------------------------------------------------------------
(* Properties of the codec *)

StartsWith(text, prefix) ==
    Len(text) >= Len(prefix) /\ SubSeq(text, 1, Len(prefix)) = prefix

\* the text split at its first blank line (the first CRLF CRLF)
SplitAtBlankLine(text) ==
    LET blank == {i \in 1..(Len(text) - 3) : SubSeq(text, i, i + 3) = CRLF \o CRLF} IN
    IF blank = {} THEN [head |-> text, body |-> <<>>]
    ELSE LET i == CHOOSE k \in blank : \A j \in blank : k <= j IN
         [head |-> SubSeq(text, 1, i - 1), body |-> SubSeq(text, i + 4, Len(text))]

\* the lines of a header block, split at CRLF
RECURSIVE SplitLines(_)
SplitLines(text) ==
    LET breaks == {i \in 1..(Len(text) - 1) : SubSeq(text, i, i + 1) = CRLF} IN
    IF breaks = {} THEN << text >>
    ELSE LET i == CHOOSE k \in breaks : \A j \in breaks : k <= j IN
         << SubSeq(text, 1, i - 1) >> \o SplitLines(SubSeq(text, i + 2, Len(text)))

\* the values of the header lines that start with prefix, in order
HeaderValues(lines, prefix) ==
    LET hits == SelectSeq(lines, LAMBDA line : StartsWith(line, prefix)) IN
    [i \in 1..Len(hits) |-> SubSeq(hits[i], Len(prefix) + 1, Len(hits[i]))]

\* the decoded message reproduces the values createRawMessage was given
Reproduced(m) ==
    LET parts == SplitAtBlankLine(m.decoded)
        lines == SplitLines(parts.head) IN
    /\ HeaderValues(lines, ToPrefix) = << m.to >>
    /\ HeaderValues(lines, SubjectPrefix) = << m.subject >>
    /\ Truthy(m.cc) => HeaderValues(lines, CcPrefix) = << m.cc >>
    /\ Truthy(m.bcc) => HeaderValues(lines, BccPrefix) = << m.bcc >>
    /\ Truthy(m.references) => HeaderValues(lines, ReferencesPrefix) = << m.references >>
    /\ Truthy(m.inReplyTo) => HeaderValues(lines, InReplyToPrefix) = << m.inReplyTo >>
    /\ parts.body = m.body

HasLineBreak(text) ==
    \E i \in 1..(Len(text) - 1) : SubSeq(text, i, i + 1) = CRLF

\* C10 as claimed: decoding createRawMessage's output with decodeBase64 and
\* splitting it at the first blank line gives back exactly the header values
\* and the body that were passed in, whatever they contain.
C10_RoundTrip ==
    codec.pc = "decoded" => Reproduced(codec)

\* The round trip of C10 for header values that hold no CRLF (the body may
\* hold any text, blank lines included).
RoundTripOfSingleLineHeaders ==
    (codec.pc = "decoded" /\ ~HasLineBreak(codec.to)) => Reproduced(codec)

\* an optional argument counts as supplied when it is a non-empty string
Supplied(value) == value # Undefined /\ value # <<>>

\* the header line of an optional argument, led by the CRLF that joins it to
\* the line before it
OptionalLine(prefix, value) ==
    IF Supplied(value) THEN CRLF \o prefix \o value ELSE <<>>

\* the message text C11 describes
ExpectedMessage(m) ==
    ToPrefix \o m.to \o CRLF
    \o SubjectPrefix \o m.subject \o CRLF
    \o ContentTypeLine
    \o OptionalLine(CcPrefix, m.cc)
    \o OptionalLine(BccPrefix, m.bcc)
    \o OptionalLine(ReferencesPrefix, m.references)
    \o OptionalLine(InReplyToPrefix, m.inReplyTo)
    \o CRLF \o CRLF
    \o m.body

HasHeaderLine(text, prefix) == HeaderValues(SplitLines(text), prefix) # <<>>

-----------------------------------------------------------------------------
(* The part-tree specification: getMessageBody and getAttachments applied to
   bounded MIME part trees *)

\* number of parts of the generated trees
MaxParts == 4

\* a string field that is undefined or "" (the code tests it by truthiness)
Absent == ""

\* body.size when the field is undefined
NoSize == -1

\* payload when it is undefined
NoPayload == [undefined |-> TRUE]

PartKinds == {"plain", "html", "detached", "multipart", "attachment", "bare"}

\* body.data as the upstream encodes it: URL-safe base64
EncodeData(text) ==
    ReplaceAll(ReplaceAll(ToBase64(Bytes(text)), "+", "-"), "/", "_")

\* the text carried by the i-th part of a tree
PartText(letter, i) == << letter, CharOf(48 + i) >>

\* the fields of the i-th part of a tree, by its kind
PartFields(kind, i) ==
    CASE kind = "plain" ->
            [mimeType |-> "text/plain", data |-> EncodeData(PartText("p", i)),
             attachmentId |-> Absent, filename |-> Absent, size |-> 2]
      [] kind = "html" ->
            [mimeType |-> "text/html", data |-> EncodeData(PartText("h", i)),
             attachmentId |-> Absent, filename |-> Absent, size |-> 2]
      [] kind = "detached" ->
            [mimeType |-> "text/plain", data |-> <<>>,
             attachmentId |-> "att" \o ToString(i), filename |-> Absent, size |-> 5]
      [] kind = "multipart" ->
            [mimeType |-> "multipart/mixed", data |-> <<>>,
             attachmentId |-> Absent, filename |-> Absent, size |-> 0]
      [] kind = "attachment" ->
            [mimeType |-> "application/pdf", data |-> <<>>,
             attachmentId |-> "att" \o ToString(i), filename |-> "f" \o ToString(i),
             size |-> 10 + i]
      [] OTHER ->
            [mimeType |-> Absent, data |-> <<>>,
             attachmentId |-> "att" \o ToString(i), filename |-> "f" \o ToString(i),
             size |-> NoSize]

\* the depths of the parts of a tree of n parts, listed parent first
DepthLists(n) ==
    { d \in [1..n -> 0..(n - 1)] :
        /\ d[1] = 0
        /\ \A i \in 2..n : d[i] >= 1 /\ d[i] <= d[i - 1] + 1 }

\* the trees of n parts, flat: the kind and the depth of each part
FlatTrees(n) ==
    { [kinds |-> k, depths |-> d] : k \in [1..n -> PartKinds], d \in DepthLists(n) }

RECURSIVE Ascending(_)
Ascending(S) ==
    IF S = {} THEN <<>>
    ELSE LET m == CHOOSE i \in S : \A j \in S : i <= j IN << m >> \o Ascending(S \ {m})

\* the positions of the children of part i
ChildrenOf(flat, i) ==
    { j \in (i + 1)..Len(flat.depths) :
        /\ flat.depths[j] = flat.depths[i] + 1
        /\ \A k \in (i + 1)..j : flat.depths[k] > flat.depths[i] }

\* the MessagePart at position i, with its parts
RECURSIVE PartAt(_, _)
PartAt(flat, i) ==
    LET f == PartFields(flat.kinds[i], i)
        children == Ascending(ChildrenOf(flat, i)) IN
    [mimeType |-> f.mimeType, data |-> f.data, attachmentId |-> f.attachmentId,
     filename |-> f.filename, size |-> f.size,
     parts |-> [c \in 1..Len(children) |-> PartAt(flat, children[c])]]

\* the first element of a sequence that satisfies Test, or none
FirstWhere(seq, Test(_)) ==
    LET hits == {i \in 1..Len(seq) : Test(seq[i])} IN
    IF hits = {} THEN <<>>
    ELSE << seq[CHOOSE i \in hits : \A j \in hits : i <= j] >>

\* getMessageBody without its second pass (text/html children)
RECURSIVE GetMessageBodyNoHtmlPass(_)
GetMessageBodyNoHtmlPass(payload) ==
    IF payload = NoPayload THEN <<>>
    ELSE IF payload.data # <<>> THEN DecodeBase64(payload.data)
    ELSE
        LET plain == FirstWhere(payload.parts,
                         LAMBDA part : part.mimeType = "text/plain" /\ part.data # <<>>)
            nested == FirstWhere(
                         [i \in 1..Len(payload.parts) |->
                             GetMessageBodyNoHtmlPass(payload.parts[i])],
                         LAMBDA nestedBody : nestedBody # <<>>) IN
        IF plain # <<>> THEN DecodeBase64(plain[1].data)
        ELSE IF nested # <<>> THEN nested[1]
        ELSE <<>>

\* getMessageBody(payload)
RECURSIVE GetMessageBody(_)
GetMessageBody(payload) ==
    IF payload = NoPayload THEN <<>>
    ELSE IF payload.data # <<>> THEN DecodeBase64(payload.data)
    ELSE
        LET plain == FirstWhere(payload.parts,
                         LAMBDA part : part.mimeType = "text/plain" /\ part.data # <<>>)
            html == FirstWhere(payload.parts,
                         LAMBDA part : part.mimeType = "text/html" /\ part.data # <<>>)
            nested == FirstWhere(
                         [i \in 1..Len(payload.parts) |-> GetMessageBody(payload.parts[i])],
                         LAMBDA nestedBody : nestedBody # <<>>) IN
        IF plain # <<>> THEN DecodeBase64(plain[1].data)
        ELSE IF html # <<>> THEN DecodeBase64(html[1].data)
        ELSE IF nested # <<>> THEN nested[1]
        ELSE <<>>

\* the concatenation of a sequence of sequences
RECURSIVE Flatten(_)
Flatten(seqs) ==
    IF seqs = <<>> THEN <<>> ELSE Head(seqs) \o Flatten(Tail(seqs))

\* getAttachments that does not look below a part that is an attachment
RECURSIVE GetAttachmentsStopAtAttachment(_)
GetAttachmentsStopAtAttachment(payload) ==
    IF payload = NoPayload THEN <<>>
    ELSE IF payload.attachmentId # Absent /\ payload.filename # Absent
        THEN << [id |-> payload.attachmentId,
                 filename |-> payload.filename,
                 mimeType |-> IF payload.mimeType # Absent THEN payload.mimeType
                              ELSE "application/octet-stream",
                 size |-> IF payload.size \in {NoSize, 0} THEN 0 ELSE payload.size] >>
        ELSE Flatten([i \in 1..Len(payload.parts) |->
                         GetAttachmentsStopAtAttachment(payload.parts[i])])

\* getAttachments(payload)
RECURSIVE GetAttachments(_)
GetAttachments(payload) ==
    IF payload = NoPayload THEN <<>>
    ELSE
        (IF payload.attachmentId # Absent /\ payload.filename # Absent
            THEN << [id |-> payload.attachmentId,
                     filename |-> payload.filename,
                     mimeType |-> IF payload.mimeType # Absent THEN payload.mimeType
                                  ELSE "application/octet-stream",
                     size |-> IF payload.size \in {NoSize, 0} THEN 0 ELSE payload.size] >>
            ELSE <<>>)
        \o Flatten([i \in 1..Len(payload.parts) |-> GetAttachments(payload.parts[i])])

NoFlat == [kinds |-> <<>>, depths |-> <<>>]

PartTreeInit ==
    /\ credFile = "absent"
    /\ tokenFile = FALSE
    /\ oauth2Client = 0
    /\ gmail = 0
    /\ calls = [c \in CallIds |-> IdleCall]
    /\ inflight = {}
    /\ fsTrace = <<>>
    /\ delivered = 0
    /\ outcome = NoOutcome
    /\ codec = NoCodec
    /\ compose = NoCompose
    /\ labels = NoLabels
    /\ catalog = NoCatalog
    /\ cleanup = NoCleanup
    /\ auth = NoAuth
    /\ \/ partTree = [pc |-> "input", flat |-> NoFlat, payload |-> NoPayload,
                      body |-> <<>>, attachments |-> <<>>]
       \/ \E n \in 1..MaxParts : \E flat \in FlatTrees(n) :
              partTree = [pc |-> "input", flat |-> flat, payload |-> PartAt(flat, 1),
                          body |-> <<>>, attachments |-> <<>>]

\* this.getMessageBody(payload)
ResolveBody ==
    /\ partTree.pc = "input"
    /\ partTree' = [partTree EXCEPT !.pc = "body", !.body = GetMessageBody(partTree.payload)]
    /\ UNCHANGED <<dispatcherVars, codec, compose, labels, toolingVars>>

\* this.getAttachments(payload)
ListAttachments ==
    /\ partTree.pc = "input"
    /\ partTree' = [partTree EXCEPT !.pc = "attachments",
                                    !.attachments = GetAttachments(partTree.payload)]
    /\ UNCHANGED <<dispatcherVars, codec, compose, labels, toolingVars>>

PartTreeNext == ResolveBody \/ ListAttachments

PartTreeSpec == PartTreeInit /\ [][PartTreeNext]_vars

-----------------------------------------------------------------------------
(* Properties of the part-tree operations, stated on the flat form of the
   tree: part i of kind "plain" carries the text p<i>, of kind "html" h<i> *)

Least(S) == CHOOSE i \in S : \A j \in S : i <= j

\* the body C12 describes for the part at position i
RECURSIVE ExpectedBody(_, _)
ExpectedBody(flat, i) ==
    LET children == ChildrenOf(flat, i)
        plain == {j \in children : flat.kinds[j] = "plain"}
        html == {j \in children : flat.kinds[j] = "html"}
        nonEmpty == {j \in children : ExpectedBody(flat, j) # <<>>} IN
    CASE flat.kinds[i] = "plain" -> PartText("p", i)
      [] flat.kinds[i] = "html" -> PartText("h", i)
      [] OTHER ->
            IF plain # {} THEN PartText("p", Least(plain))
            ELSE IF html # {} THEN PartText("h", Least(html))
            ELSE IF nonEmpty # {} THEN ExpectedBody(flat, Least(nonEmpty))
            ELSE <<>>

\* C12: getMessageBody returns the part's own inline data decoded; otherwise
\* the first text/plain child with data, else the first text/html child with
\* data, else the first non-empty result of recursing into the children in
\* order; and the empty string when the tree holds no data (or there is no
\* payload). A part with plain and HTML children yields the plain text in
\* either order.
C12_BodyResolution ==
    partTree.pc = "body" =>
        LET flat == partTree.flat
            n == Len(flat.kinds) IN
        /\ n = 0 => partTree.body = <<>>
        /\ n > 0 => partTree.body = ExpectedBody(flat, 1)
        /\ (\A i \in 1..n : flat.kinds[i] \notin {"plain", "html"}) => partTree.body = <<>>
        /\ (n > 0 /\ flat.kinds[1] \notin {"plain", "html"}) =>
              \A i, j \in ChildrenOf(flat, 1) :
                  (/\ flat.kinds[i] = "plain"
                   /\ flat.kinds[j] = "html"
                   /\ \A k \in ChildrenOf(flat, 1) : flat.kinds[k] = "plain" => i <= k)
                  => partTree.body = PartText("p", i)

\* a part whose first child is a multipart holding a plain part and whose
\* second child is HTML: the HTML child is taken before any recursion
C12_Witness ==
    /\ partTree.pc = "body"
    /\ partTree.flat.kinds = << "multipart", "multipart", "plain", "html" >>
    /\ partTree.flat.depths = << 0, 1, 2, 1 >>
    /\ partTree.body = << "h", "4" >>

\* the entry C13 describes for the part at position i
ExpectedAttachment(flat, i) ==
    [id |-> "att" \o ToString(i),
     filename |-> "f" \o ToString(i),
     mimeType |-> IF flat.kinds[i] = "bare" THEN "application/octet-stream"
                  ELSE "application/pdf",
     size |-> IF flat.kinds[i] = "bare" THEN 0 ELSE 10 + i]

\* C13: getAttachments returns one entry for exactly the parts that carry an
\* attachment id and a filename, in pre-order of the tree, whether or not an
\* ancestor qualified; a missing mimeType reads application/octet-stream and
\* a missing size 0.
C13_AttachmentsInPreOrder ==
    partTree.pc = "attachments" =>
        LET flat == partTree.flat
            qualifying == Ascending({i \in 1..Len(flat.kinds) :
                                        flat.kinds[i] \in {"attachment", "bare"}}) IN
        partTree.attachments =
            [k \in 1..Len(qualifying) |-> ExpectedAttachment(flat, qualifying[k])]

\* three levels, attachments at the first and the third
C13_Witness ==
    /\ partTree.pc = "attachments"
    /\ partTree.flat.kinds = << "attachment", "multipart", "bare", "detached" >>
    /\ partTree.flat.depths = << 0, 1, 2, 1 >>
    /\ Len(partTree.attachments) = 2
    /\ partTree.attachments[2].mimeType = "application/octet-stream"
    /\ partTree.attachments[2].size = 0

-----------------------------------------------------------------------------
(* The compose specification: replyToMessage and forwardMessage applied to
   bounded original messages *)

\* number of comma-separated entries of the original To header
MaxRecipients == 2

\* String.toLowerCase() on the header names that occur
ToLowerCase(name) ==
    CASE name \in {"From", "from"} -> "from"
      [] name \in {"To", "to"} -> "to"
      [] name \in {"Cc", "cc"} -> "cc"
      [] name \in {"Subject", "subject"} -> "subject"
      [] name \in {"Date", "date"} -> "date"
      [] name \in {"References", "references"} -> "references"
      [] name \in {"Message-ID", "Message-Id", "message-id"} -> "message-id"
      [] OTHER -> name

\* getHeader(headers, name): the value of the first header of that name,
\* compared in lower case; "" when there is none or its value is empty
GetHeader(headers, name) ==
    LET hits == {i \in 1..Len(headers) :
                    ToLowerCase(headers[i].name) = ToLowerCase(name)} IN
    IF hits = {} THEN <<>>
    ELSE headers[CHOOSE i \in hits : \A j \in hits : i <= j].value

\* String.split(","): "" splits into one empty entry
RECURSIVE SplitAtCommas(_)
SplitAtCommas(text) ==
    LET commas == {i \in 1..Len(text) : text[i] = ","} IN
    IF commas = {} THEN << text >>
    ELSE LET i == CHOOSE k \in commas : \A j \in commas : k <= j IN
         << SubSeq(text, 1, i - 1) >> \o SplitAtCommas(SubSeq(text, i + 1, Len(text)))

\* Array.filter(Boolean) on strings: the empty ones are dropped
FilterBoolean(entries) == SelectSeq(entries, LAMBDA entry : entry # <<>>)

RePrefix == << "R", "e", ":" >>

FwdPrefix == << "F", "w", "d", ":" >>

\* replySubject that puts "Re: " in front of every subject
ReplySubjectAlways(subject) == RePrefix \o << " " >> \o subject

\* replySubject
ReplySubject(subject) ==
    IF StartsWith(subject, RePrefix) THEN subject ELSE RePrefix \o << " " >> \o subject

\* replyTo that keeps only the original To and Cc entries
ReplyToWithoutFrom(replyAll, from, to, cc) ==
    IF replyAll = "true"
        THEN Join(FilterBoolean(SplitAtCommas(to) \o SplitAtCommas(cc)), << "," >>)
        ELSE from

\* replyTo
ReplyTo(replyAll, from, to, cc) ==
    IF replyAll = "true"
        THEN Join(FilterBoolean(<< from >> \o SplitAtCommas(to) \o SplitAtCommas(cc)),
                  << "," >>)
        ELSE from

\* the References argument that drops the original chain
ReplyReferencesIdOnly(references, messageIdHeader) == messageIdHeader

\* the References argument of the reply
ReplyReferences(references, messageIdHeader) ==
    IF references # <<>> THEN references \o << " " >> \o messageIdHeader
    ELSE messageIdHeader

\* an absent field of a request body
NoThread == << "absent" >>

\* replyToMessage: the users.messages.send request built from the original
ReplyToMessage(args, original) ==
    LET headers == original.headers
        from == GetHeader(headers, "From")
        to == GetHeader(headers, "To")
        cc == GetHeader(headers, "Cc")
        subject == GetHeader(headers, "Subject")
        messageIdHeader == GetHeader(headers, "Message-ID")
        references == GetHeader(headers, "References") IN
    [raw |-> CreateRawMessage(ReplyTo(args.replyAll, from, to, cc),
                              ReplySubject(subject),
                              args.body,
                              Undefined,
                              Undefined,
                              original.threadId,
                              ReplyReferences(references, messageIdHeader),
                              messageIdHeader),
     threadId |-> original.threadId]

ForwardBanner ==
    << "-", "-", "-", "-", "-", "-", "-", "-", "-", "-", " ",
       "F", "o", "r", "w", "a", "r", "d", "e", "d", " ",
       "m", "e", "s", "s", "a", "g", "e", " ",
       "-", "-", "-", "-", "-", "-", "-", "-", "-", "-" >>

\* forwardSubject
ForwardSubject(subject) ==
    IF StartsWith(subject, FwdPrefix) THEN subject ELSE FwdPrefix \o << " " >> \o subject

\* forwardBody
ForwardBody(additionalMessage, originalFrom, originalDate, subject, originalBody) ==
    (IF Truthy(additionalMessage) THEN additionalMessage \o << "\n", "\n" >> ELSE <<>>)
    \o ForwardBanner
    \o << "\n", "F", "r", "o", "m", ":", " " >> \o originalFrom
    \o << "\n", "D", "a", "t", "e", ":", " " >> \o originalDate
    \o << "\n", "S", "u", "b", "j", "e", "c", "t", ":", " " >> \o subject
    \o << "\n", "\n" >> \o originalBody

\* forwardMessage that sends the forward into the original's thread
ForwardMessageThreaded(args, original) ==
    LET headers == original.headers
        subject == GetHeader(headers, "Subject") IN
    [raw |-> CreateRawMessage(args.to, ForwardSubject(subject),
                              ForwardBody(args.additionalMessage,
                                          GetHeader(headers, "From"),
                                          GetHeader(headers, "Date"),
                                          subject,
                                          GetMessageBody(original.payload)),
                              Undefined, Undefined, Undefined,
                              GetHeader(headers, "Message-ID"),
                              GetHeader(headers, "Message-ID")),
     threadId |-> original.threadId]

\* forwardMessage: the users.messages.send request built from the original
ForwardMessage(args, original) ==
    LET headers == original.headers
        subject == GetHeader(headers, "Subject")
        originalFrom == GetHeader(headers, "From")
        originalDate == GetHeader(headers, "Date")
        originalBody == GetMessageBody(original.payload) IN
    [raw |-> CreateRawMessage(args.to, ForwardSubject(subject),
                              ForwardBody(args.additionalMessage, originalFrom,
                                          originalDate, subject, originalBody),
                              Undefined, Undefined, Undefined, Undefined, Undefined),
     threadId |-> NoThread]

\* a header the original does not carry
NoHeader == << "absent" >>

\* args.replyAll: a boolean, or not passed
ReplyAllValues == {"true", "false", "undefined"}

FromHeaders == { NoHeader, << "a", "@", "x" >> }

ToEntries == { <<>>, << "b", "@", "x" >>, << "c", "@", "x" >> }

ToHeaders ==
    { NoHeader }
    \cup UNION { { Join(entries, << "," >>) : entries \in [1..n -> ToEntries] } :
                 n \in 1..MaxRecipients }

CcHeaders == { NoHeader, << "d", "@", "x" >> }

SubjectHeaders ==
    { NoHeader,
      << "H", "i" >>,
      << "R", "e", ":", " ", "H", "i" >>,
      << "r", "e", ":", " ", "H", "i" >>,
      << "R", "e", ":", "H", "i" >>,
      << "F", "w", "d", ":", " ", "H", "i" >>,
      << "F", "w", "d", ":", "H", "i" >> }

MessageIdHeaders == { NoHeader, << "<", "m", ">" >> }

ReferencesHeaders == { NoHeader, << "<", "r", ">" >> }

ThreadIds == { << "t", "1" >>, << "t", "2" >> }

AdditionalMessages == { Undefined, <<>>, << "F", "Y", "I" >> }

ForwardPayloads ==
    { NoPayload,
      PartAt([kinds |-> << "plain" >>, depths |-> << 0 >>], 1),
      PartAt([kinds |-> << "multipart", "html" >>, depths |-> << 0, 1 >>], 1) }

\* payload.headers: the headers the original carries, as the API lists them
HeaderList(from, to, cc, subject, messageId, references, date) ==
    LET One(name, value) ==
            IF value = NoHeader THEN <<>> ELSE << [name |-> name, value |-> value] >> IN
    One("From", from) \o One("To", to) \o One("Cc", cc) \o One("Subject", subject)
    \o One("Message-Id", messageId) \o One("References", references) \o One("Date", date)

OriginalDate == << "M", "o", "n" >>

NoRequest == [raw |-> <<>>, threadId |-> NoThread]

ComposeInit ==
    /\ credFile = "absent"
    /\ tokenFile = FALSE
    /\ oauth2Client = 0
    /\ gmail = 0
    /\ calls = [c \in CallIds |-> IdleCall]
    /\ inflight = {}
    /\ fsTrace = <<>>
    /\ delivered = 0
    /\ outcome = NoOutcome
    /\ codec = NoCodec
    /\ partTree = NoPartTree
    /\ labels = NoLabels
    /\ catalog = NoCatalog
    /\ cleanup = NoCleanup
    /\ auth = NoAuth
    /\ \/ \E from \in FromHeaders, to \in ToHeaders, cc \in CcHeaders,
             subject \in SubjectHeaders, messageId \in MessageIdHeaders,
             references \in ReferencesHeaders, threadId \in ThreadIds,
             replyAll \in ReplyAllValues :
              compose =
                  [pc |-> "input",
                   tool |-> "gmail_reply",
                   args |-> [body |-> << "o", "k" >>, replyAll |-> replyAll,
                             to |-> Undefined, additionalMessage |-> Undefined],
                   original |-> [headers |-> HeaderList(from, to, cc, subject, messageId,
                                                        references, OriginalDate),
                                 threadId |-> threadId,
                                 payload |-> NoPayload],
                   request |-> NoRequest,
                   received |-> <<>>]
       \/ \E from \in FromHeaders, subject \in SubjectHeaders,
             messageId \in MessageIdHeaders, payload \in ForwardPayloads,
             additionalMessage \in AdditionalMessages :
              compose =
                  [pc |-> "input",
                   tool |-> "gmail_forward_message",
                   args |-> [body |-> Undefined, replyAll |-> "undefined",
                             to |-> << "e", "@", "x" >>,
                             additionalMessage |-> additionalMessage],
                   original |-> [headers |-> HeaderList(from, NoHeader, NoHeader, subject,
                                                        messageId, << "<", "r", ">" >>,
                                                        OriginalDate),
                                 threadId |-> << "t", "1" >>,
                                 payload |-> payload],
                   request |-> NoRequest,
                   received |-> <<>>]

\* replyToMessage: the original is fetched and the reply is sent
Reply ==
    /\ compose.pc = "input"
    /\ compose.tool = "gmail_reply"
    /\ compose' = [compose EXCEPT !.pc = "sent",
                                  !.request = ReplyToMessage(compose.args, compose.original)]
    /\ UNCHANGED <<dispatcherVars, codec, partTree, labels, toolingVars>>

\* forwardMessage: the original is fetched and the forward is sent
Forward ==
    /\ compose.pc = "input"
    /\ compose.tool = "gmail_forward_message"
    /\ compose' = [compose EXCEPT !.pc = "sent",
                                  !.request = ForwardMessage(compose.args, compose.original)]
    /\ UNCHANGED <<dispatcherVars, codec, partTree, labels, toolingVars>>

\* users.messages.send: the mailbox decodes the raw message it was sent
Deliver ==
    /\ compose.pc = "sent"
    /\ compose' = [compose EXCEPT !.pc = "delivered",
                                  !.received = DecodeBase64(compose.request.raw)]
    /\ UNCHANGED <<dispatcherVars, codec, partTree, labels, toolingVars>>

ComposeNext == Reply \/ Forward \/ Deliver

ComposeSpec == ComposeInit /\ [][ComposeNext]_vars

-----------------------------------------------------------------------------
(* Properties of replyToMessage and forwardMessage, read off the message that
   was sent *)

\* the message the mailbox received, split at its first blank line
SentMessage == SplitAtBlankLine(compose.received)

\* the values of the sent header lines that start with prefix
SentHeaders(prefix) == HeaderValues(SplitLines(SentMessage.head), prefix)

\* the value of a sent header, "" when the message does not carry it
SentHeader(prefix) ==
    IF SentHeaders(prefix) = <<>> THEN <<>> ELSE SentHeaders(prefix)[1]

\* the value of a header of the original, "" when it does not carry it
Original(name) == GetHeader(compose.original.headers, name)

Replied == compose.pc = "delivered" /\ compose.tool = "gmail_reply"

Forwarded == compose.pc = "delivered" /\ compose.tool = "gmail_forward_message"

\* C14 as claimed: the reply subject is the original unchanged when it starts
\* with "Re: " (with the space) and "Re: " followed by the original in every
\* other case, "Re:Hi" included.
C14_RePrefixWithSpace ==
    Replied =>
        SentHeader(SubjectPrefix) =
            IF StartsWith(Original("Subject"), << "R", "e", ":", " " >>)
                THEN Original("Subject")
                ELSE << "R", "e", ":", " " >> \o Original("Subject")

\* C14 (amended): the reply subject is the original unchanged when it starts
\* with "Re:" (case-sensitive, no space needed, so "Re: Hi" and "Re:Hi" both
\* stay), and "Re: " followed by the original otherwise ("re: Hi", "Hi", "").
C14_RePrefixWithoutSpace ==
    Replied =>
        /\ SentHeader(SubjectPrefix) =
               IF StartsWith(Original("Subject"), << "R", "e", ":" >>)
                   THEN Original("Subject")
                   ELSE << "R", "e", ":", " " >> \o Original("Subject")
        /\ Original("Subject") = << "R", "e", ":", " ", "H", "i" >>
               => SentHeader(SubjectPrefix) = << "R", "e", ":", " ", "H", "i" >>
        /\ Original("Subject") = << "r", "e", ":", " ", "H", "i" >>
               => SentHeader(SubjectPrefix)
                      = << "R", "e", ":", " ", "r", "e", ":", " ", "H", "i" >>
        /\ Original("Subject") = <<>>
               => SentHeader(SubjectPrefix) = << "R", "e", ":", " " >>

\* a reply to "Re:Hi" keeps the subject
C14_Witness ==
    /\ Replied
    /\ Original("Subject") = << "R", "e", ":", "H", "i" >>
    /\ SentHeader(SubjectPrefix) = << "R", "e", ":", "H", "i" >>

\* the non-empty comma-separated entries of a header value
Entries(value) == SelectSeq(SplitAtCommas(value), LAMBDA entry : Len(entry) > 0)

\* C15: the reply goes to the original From alone unless replyAll is true;
\* with replyAll true its To header is the original From, then the entries of
\* the original To, then those of the original Cc, joined by commas, empty
\* entries dropped, duplicates kept.
C15_ReplyRecipients ==
    Replied =>
        LET everyone == (IF Original("From") = <<>> THEN <<>> ELSE << Original("From") >>)
                        \o Entries(Original("To")) \o Entries(Original("Cc")) IN
        /\ compose.args.replyAll # "true" => SentHeader(ToPrefix) = Original("From")
        /\ compose.args.replyAll = "true" =>
               /\ Entries(SentHeader(ToPrefix)) = everyone
               /\ SentHeader(ToPrefix) = Join(everyone, << "," >>)

\* from a@x, to b@x,c@x, no Cc, replyAll: a@x,b@x,c@x
C15_Witness ==
    /\ Replied
    /\ compose.args.replyAll = "true"
    /\ Original("From") = << "a", "@", "x" >>
    /\ Original("To") = << "b", "@", "x", ",", "c", "@", "x" >>
    /\ Original("Cc") = <<>>
    /\ SentHeader(ToPrefix) = << "a", "@", "x", ",", "b", "@", "x", ",", "c", "@", "x" >>

\* C16: the reply carries References = the original References, a space and
\* the original Message-ID (the Message-ID alone when the original has no
\* References), In-Reply-To = the original Message-ID, and is sent with the
\* original's threadId. A header the message does not carry reads "".
C16_ReplyThreading ==
    Replied =>
        /\ SentHeader(ReferencesPrefix) =
               IF Original("References") = <<>> THEN Original("Message-ID")
               ELSE Original("References") \o << " " >> \o Original("Message-ID")
        /\ SentHeader(InReplyToPrefix) = Original("Message-ID")
        /\ compose.request.threadId = compose.original.threadId

\* a reply to a message of thread t2 that carries References and a Message-Id
C16_Witness ==
    /\ Replied
    /\ compose.original.threadId = << "t", "2" >>
    /\ SentHeader(ReferencesPrefix) = << "<", "r", ">", " ", "<", "m", ">" >>
    /\ SentHeader(InReplyToPrefix) = << "<", "m", ">" >>
    /\ compose.request.threadId = << "t", "2" >>

\* the body C17 describes
ExpectedForwardBody ==
    (IF Supplied(compose.args.additionalMessage)
        THEN compose.args.additionalMessage \o << "\n", "\n" >> ELSE <<>>)
    \o ForwardBanner \o << "\n" >>
    \o << "F", "r", "o", "m", ":", " " >> \o Original("From") \o << "\n" >>
    \o << "D", "a", "t", "e", ":", " " >> \o Original("Date") \o << "\n" >>
    \o << "S", "u", "b", "j", "e", "c", "t", ":", " " >> \o Original("Subject")
    \o << "\n", "\n" >>
    \o GetMessageBody(compose.original.payload)

\* C17 as claimed: the forward's subject is the original prefixed with
\* "Fwd: " unless the original already starts with "Fwd: " (with the space).
C17_FwdPrefixWithSpace ==
    Forwarded =>
        SentHeader(SubjectPrefix) =
            IF StartsWith(Original("Subject"), << "F", "w", "d", ":", " " >>)
                THEN Original("Subject")
                ELSE << "F", "w", "d", ":", " " >> \o Original("Subject")

\* C17 (amended): the forward is a new, unthreaded message: no References and
\* no In-Reply-To header, no threadId in the send request; its subject is the
\* original unchanged when it starts with "Fwd:" (no space needed) and
\* "Fwd: " followed by the original otherwise; its body is the optional
\* additional message, the banner, the original From/Date/Subject lines and
\* the original's resolved body.
C17_ForwardIsUnthreaded ==
    Forwarded =>
        /\ SentHeader(SubjectPrefix) =
               IF StartsWith(Original("Subject"), << "F", "w", "d", ":" >>)
                   THEN Original("Subject")
                   ELSE << "F", "w", "d", ":", " " >> \o Original("Subject")
        /\ SentHeaders(ReferencesPrefix) = <<>>
        /\ SentHeaders(InReplyToPrefix) = <<>>
        /\ compose.request.threadId = NoThread
        /\ SentMessage.body = ExpectedForwardBody

\* a forward, with a note, of a threaded message whose body is an HTML part
C17_Witness ==
    /\ Forwarded
    /\ Original("Message-ID") # <<>>
    /\ Original("References") # <<>>
    /\ Supplied(compose.args.additionalMessage)
    /\ GetMessageBody(compose.original.payload) = << "h", "2" >>
    /\ Original("Subject") = << "F", "w", "d", ":", "H", "i" >>
    /\ SentHeader(SubjectPrefix) = << "F", "w", "d", ":", "H", "i" >>

-----------------------------------------------------------------------------
(* The label specification: the label tools, with the session established,
   against a mailbox that applies label deltas as set operations *)

\* number of messages in the mailbox
MaxMessages == 1

Messages == { "m" \o ToString(i) : i \in 1..MaxMessages }

SystemLabels == {"INBOX", "UNREAD", "STARRED", "TRASH"}

\* a string argument that was not passed
NoArg == ""

\* the elements of a label list; none when the list is undefined
ListSet(list) == IF list = Undefined THEN {} ELSE {list[i] : i \in DOMAIN list}

LabelArgs(messageId, addLabelIds, removeLabelIds, labelId, name) ==
    [messageId |-> messageId, addLabelIds |-> addLabelIds,
     removeLabelIds |-> removeLabelIds, labelId |-> labelId, name |-> name]

LabelRequest(api, id, addLabelIds, removeLabelIds, name) ==
    [api |-> api, id |-> id, addLabelIds |-> addLabelIds,
     removeLabelIds |-> removeLabelIds, name |-> name]

\* modifyLabels: the upstream requests it issues
ModifyLabels(args) ==
    << LabelRequest("users.messages.modify", args.messageId, args.addLabelIds,
                    args.removeLabelIds, NoArg) >>

\* markAsRead that also archives the message
MarkAsReadAndArchive(args) ==
    ModifyLabels(LabelArgs(args.messageId, Undefined, << "UNREAD", "INBOX" >>, NoArg, NoArg))

MarkAsRead(args) ==
    ModifyLabels(LabelArgs(args.messageId, Undefined, << "UNREAD" >>, NoArg, NoArg))

MarkAsUnread(args) ==
    ModifyLabels(LabelArgs(args.messageId, << "UNREAD" >>, Undefined, NoArg, NoArg))

\* archiveMessage that issues a second modify request, marking the message read
ArchiveMessageTwoRequests(args) ==
    ModifyLabels(LabelArgs(args.messageId, Undefined, << "INBOX" >>, NoArg, NoArg))
    \o ModifyLabels(LabelArgs(args.messageId, Undefined, << "UNREAD" >>, NoArg, NoArg))

ArchiveMessage(args) ==
    ModifyLabels(LabelArgs(args.messageId, Undefined, << "INBOX" >>, NoArg, NoArg))

UnarchiveMessage(args) ==
    ModifyLabels(LabelArgs(args.messageId, << "INBOX" >>, Undefined, NoArg, NoArg))

StarMessage(args) ==
    ModifyLabels(LabelArgs(args.messageId, << "STARRED" >>, Undefined, NoArg, NoArg))

UnstarMessage(args) ==
    ModifyLabels(LabelArgs(args.messageId, Undefined, << "STARRED" >>, NoArg, NoArg))

\* createLabel: the visibility arguments take their defaults
CreateLabel(args) ==
    << LabelRequest("users.labels.create", NoArg, Undefined, Undefined, args.name) >>

DeleteLabel(args) ==
    << LabelRequest("users.labels.delete", args.labelId, Undefined, Undefined, NoArg) >>

\* the handler the switch selects, applied to the arguments
LabelHandler(name, args) ==
    CASE Switch(name) = "modifyLabels" -> ModifyLabels(args)
      [] Switch(name) = "markAsRead" -> MarkAsRead(args)
      [] Switch(name) = "markAsUnread" -> MarkAsUnread(args)
      [] Switch(name) = "archiveMessage" -> ArchiveMessage(args)
      [] Switch(name) = "unarchiveMessage" -> UnarchiveMessage(args)
      [] Switch(name) = "starMessage" -> StarMessage(args)
      [] Switch(name) = "unstarMessage" -> UnstarMessage(args)
      [] Switch(name) = "createLabel" -> CreateLabel(args)
      [] Switch(name) = "deleteLabel" -> DeleteLabel(args)

\* the id the mailbox gives to a created label
CreatedLabel == "Label_2"

\* the mailbox: a label delta is applied as set operations, added labels
\* first; a system label is neither created nor deleted; a request naming an
\* unknown label is rejected
Upstream(request, mailbox, userLabels) ==
    LET known == SystemLabels \cup userLabels
        add == ListSet(request.addLabelIds)
        remove == ListSet(request.removeLabelIds)
        Rejected == [ok |-> FALSE, mailbox |-> mailbox, userLabels |-> userLabels] IN
    CASE request.api = "users.messages.modify" ->
            IF (add \cup remove) \subseteq known /\ request.id \in DOMAIN mailbox
                THEN [ok |-> TRUE,
                      mailbox |-> [mailbox EXCEPT ![request.id] = (@ \cup add) \ remove],
                      userLabels |-> userLabels]
                ELSE Rejected
      [] request.api = "users.labels.delete" ->
            IF request.id \in userLabels
                THEN [ok |-> TRUE,
                      mailbox |-> [m \in DOMAIN mailbox |-> mailbox[m] \ {request.id}],
                      userLabels |-> userLabels \ {request.id}]
                ELSE Rejected
      [] request.api = "users.labels.create" ->
            IF request.name \notin SystemLabels /\ CreatedLabel \notin userLabels
                THEN [ok |-> TRUE, mailbox |-> mailbox,
                      userLabels |-> userLabels \cup {CreatedLabel}]
                ELSE Rejected

\* the requests of a handler answered one after another; a rejection ends the
\* handler
RECURSIVE Answer(_, _, _)
Answer(requests, mailbox, userLabels) ==
    IF requests = <<>> THEN [ok |-> TRUE, mailbox |-> mailbox, userLabels |-> userLabels]
    ELSE LET first == Upstream(Head(requests), mailbox, userLabels) IN
         IF first.ok THEN Answer(Tail(requests), first.mailbox, first.userLabels)
         ELSE first

AliasTools ==
    {"gmail_mark_as_read", "gmail_mark_as_unread", "gmail_archive_message",
     "gmail_unarchive_message", "gmail_star_message", "gmail_unstar_message"}

MessageLabels == {"INBOX", "UNREAD", "STARRED", "Label_1"}

\* the deltas gmail_modify_labels is called with
Deltas ==
    { << << "Label_1" >>, Undefined >>,
      << Undefined, << "Label_1" >> >>,
      << << "STARRED" >>, << "UNREAD" >> >> }

LabelNames == {"Work", "INBOX"}

NoLabelCall == [tool |-> NoArg, args |-> LabelArgs(NoArg, Undefined, Undefined, NoArg, NoArg),
                requests |-> <<>>, before |-> <<>>, ok |-> FALSE]

LabelInit ==
    /\ credFile = "installed"
    /\ tokenFile = TRUE
    /\ oauth2Client = 1
    /\ gmail = 1
    /\ calls = [c \in CallIds |-> IdleCall]
    /\ inflight = {}
    /\ fsTrace = <<>>
    /\ delivered = 0
    /\ outcome = NoOutcome
    /\ codec = NoCodec
    /\ partTree = NoPartTree
    /\ compose = NoCompose
    /\ catalog = NoCatalog
    /\ cleanup = NoCleanup
    /\ auth = NoAuth
    /\ \E mailbox \in [Messages -> SUBSET MessageLabels] :
           labels = [mailbox |-> mailbox, userLabels |-> {"Label_1"}, last |-> NoLabelCall]

\* a label tool call from its dispatch to its result: the state it leaves
LabelCall(name, args) ==
    LET requests == LabelHandler(name, args)
        answer == Answer(requests, labels.mailbox, labels.userLabels) IN
    [mailbox |-> answer.mailbox,
     userLabels |-> answer.userLabels,
     last |-> [tool |-> name, args |-> args, requests |-> requests,
               before |-> labels.mailbox, ok |-> answer.ok]]

AliasCall(name, messageId) ==
    /\ labels' = LabelCall(name, LabelArgs(messageId, Undefined, Undefined, NoArg, NoArg))
    /\ UNCHANGED <<dispatcherVars, codec, partTree, compose, toolingVars>>

ModifyLabelsCall(messageId, delta) ==
    /\ labels' = LabelCall("gmail_modify_labels",
                           LabelArgs(messageId, delta[1], delta[2], NoArg, NoArg))
    /\ UNCHANGED <<dispatcherVars, codec, partTree, compose, toolingVars>>

CreateLabelCall(name) ==
    /\ labels' = LabelCall("gmail_create_label",
                           LabelArgs(NoArg, Undefined, Undefined, NoArg, name))
    /\ UNCHANGED <<dispatcherVars, codec, partTree, compose, toolingVars>>

DeleteLabelCall(labelId) ==
    /\ labels' = LabelCall("gmail_delete_label",
                           LabelArgs(NoArg, Undefined, Undefined, labelId, NoArg))
    /\ UNCHANGED <<dispatcherVars, codec, partTree, compose, toolingVars>>

LabelNext ==
    \/ \E name \in AliasTools, messageId \in Messages : AliasCall(name, messageId)
    \/ \E messageId \in Messages, delta \in Deltas : ModifyLabelsCall(messageId, delta)
    \/ \E name \in LabelNames : CreateLabelCall(name)
    \/ \E labelId \in SystemLabels \cup {"Label_1", CreatedLabel} : DeleteLabelCall(labelId)

LabelSpec == LabelInit /\ [][LabelNext]_vars

-----------------------------------------------------------------------------
(* Properties of the label tools *)

\* the label a semantic tool adds or removes, as C18 lists them
AliasDelta(tool) ==
    CASE tool = "gmail_mark_as_read" -> [add |-> {}, remove |-> {"UNREAD"}]
      [] tool = "gmail_mark_as_unread" -> [add |-> {"UNREAD"}, remove |-> {}]
      [] tool = "gmail_archive_message" -> [add |-> {}, remove |-> {"INBOX"}]
      [] tool = "gmail_unarchive_message" -> [add |-> {"INBOX"}, remove |-> {}]
      [] tool = "gmail_star_message" -> [add |-> {"STARRED"}, remove |-> {}]
      [] tool = "gmail_unstar_message" -> [add |-> {}, remove |-> {"STARRED"}]

AliasCalled == labels.last.tool \in AliasTools

\* C18: a semantic label tool issues exactly one users.messages.modify
\* request, on the given message, whose delta is the tool's single label and
\* nothing else; no other label of any message changes.
C18_AliasIsOneModify ==
    AliasCalled =>
        LET last == labels.last
            delta == AliasDelta(last.tool)
            touched == delta.add \cup delta.remove IN
        /\ Len(last.requests) = 1
        /\ last.requests[1].api = "users.messages.modify"
        /\ last.requests[1].id = last.args.messageId
        /\ ListSet(last.requests[1].addLabelIds) = delta.add
        /\ ListSet(last.requests[1].removeLabelIds) = delta.remove
        /\ Cardinality(touched) = 1
        /\ \A m \in Messages, label \in MessageLabels \cup SystemLabels :
               (m # last.args.messageId \/ label \notin touched)
               => (label \in labels.mailbox[m] <=> label \in last.before[m])
        /\ \A label \in delta.add : label \in labels.mailbox[last.args.messageId]
        /\ \A label \in delta.remove : label \notin labels.mailbox[last.args.messageId]

\* an unread message in the inbox is archived: INBOX goes, UNREAD stays
C18_Witness ==
    /\ AliasCalled
    /\ labels.last.tool = "gmail_archive_message"
    /\ {"INBOX", "UNREAD"} \subseteq labels.last.before[labels.last.args.messageId]
    /\ labels.mailbox[labels.last.args.messageId]
           = labels.last.before[labels.last.args.messageId] \ {"INBOX"}

\* C19: a semantic label tool applied a second time succeeds and leaves the
\* label sets as the first application left them; applied to a message that
\* is already in the state it asks for (mark_as_read without UNREAD, star
\* with STARRED, ...) it succeeds and changes no label set.
C19_AliasIdempotent ==
    AliasCalled =>
        LET last == labels.last
            delta == AliasDelta(last.tool)
            again == Answer(LabelHandler(last.tool, last.args),
                            labels.mailbox, labels.userLabels) IN
        /\ last.ok
        /\ again.ok
        /\ again.mailbox = labels.mailbox
        /\ (/\ delta.add \subseteq last.before[last.args.messageId]
            /\ delta.remove \cap last.before[last.args.messageId] = {})
           => labels.mailbox = last.before

\* gmail_mark_as_read on a message in the inbox that is not unread
C19_Witness ==
    /\ AliasCalled
    /\ labels.last.tool = "gmail_mark_as_read"
    /\ "UNREAD" \notin labels.last.before[labels.last.args.messageId]
    /\ "INBOX" \in labels.last.before[labels.last.args.messageId]
    /\ labels.last.ok
    /\ labels.mailbox = labels.last.before

\* C20 as claimed: no label-create or label-delete request is ever issued
\* for INBOX, UNREAD, STARRED or TRASH.
C20_NoSystemLabelCreateOrDelete ==
    \A i \in DOMAIN labels.last.requests :
        labels.last.requests[i].api \in {"users.labels.create", "users.labels.delete"}
        => labels.last.requests[i].id \notin SystemLabels

-----------------------------------------------------------------------------
(* Properties of the client-side loops of the server *)

\* call c is in the detail loop of a list tool with listed ids still to fetch
InDetailLoop(c) ==
    /\ calls[c].pc = "upstream"
    /\ DetailRequest(calls[c].handler) # ""
    /\ Len(calls[c].issued) >= 2
    /\ calls[c].remaining > 0

\* C22 as claimed: in the per-message detail loop of a list tool the failure
\* of one item does not stop the loop; while listed ids remain to be fetched
\* the operation does not end in the error envelope.
C22_LoopContinuesAfterItemFailure ==
    [][\A c \in CallIds :
          InDetailLoop(c) => ~(outcome'.call = c /\ outcome'.record.thrown # NoError)]_vars

-----------------------------------------------------------------------------
(* Properties of the state the server keeps *)

\* the file-system calls that read
FsReads ==
    { "existsSync(CREDENTIALS_PATH)", "readFileSync(CREDENTIALS_PATH)",
      "existsSync(TOKEN_PATH)", "readFileSync(TOKEN_PATH)" }

\* a step of a tool call: one is delivered, resumed or completed
ToolStep == calls' # calls

-----------------------------------------------------------------------------
(* The batch tools: gmail_batch_modify and gmail_batch_delete *)

\* the longest list of message ids a batch tool is called with
MaxBatch == 2

\* an id that names no message of the mailbox
UnknownMessage == "m0"

\* the lists of at most n message ids
IdLists(n) ==
    UNION { [1..k -> Messages \cup {UnknownMessage}] : k \in 0..n }

BatchArgs(messageIds, addLabelIds, removeLabelIds) ==
    [messageIds |-> messageIds, addLabelIds |-> addLabelIds,
     removeLabelIds |-> removeLabelIds]

BatchRequest(api, ids, addLabelIds, removeLabelIds) ==
    [api |-> api, ids |-> ids, addLabelIds |-> addLabelIds,
     removeLabelIds |-> removeLabelIds]

\* batchModify as a loop of one users.messages.batchModify request per id
BatchModifyPerId(args) ==
    [i \in 1..Len(args.messageIds) |->
        BatchRequest("users.messages.batchModify", << args.messageIds[i] >>,
                     args.addLabelIds, args.removeLabelIds)]

\* batchModify: the upstream requests it issues
BatchModify(args) ==
    << BatchRequest("users.messages.batchModify", args.messageIds,
                    args.addLabelIds, args.removeLabelIds) >>

\* batchDelete: the upstream requests it issues
BatchDelete(args) ==
    << BatchRequest("users.messages.batchDelete", args.messageIds,
                    Undefined, Undefined) >>

\* the handler the switch selects, applied to the arguments
BatchHandler(name, args) ==
    CASE Switch(name) = "batchModify" -> BatchModify(args)
      [] Switch(name) = "batchDelete" -> BatchDelete(args)

\* the mailbox: a batch request is applied to every message it names, or to
\* none when it names an unknown message or label
BatchUpstream(request, mailbox, userLabels) ==
    LET known == SystemLabels \cup userLabels
        ids == ListSet(request.ids)
        add == ListSet(request.addLabelIds)
        remove == ListSet(request.removeLabelIds)
        Rejected == [ok |-> FALSE, mailbox |-> mailbox, userLabels |-> userLabels] IN
    IF ids = {} \/ ~(ids \subseteq DOMAIN mailbox) THEN Rejected
    ELSE CASE request.api = "users.messages.batchModify" ->
                IF (add \cup remove) \subseteq known
                    THEN [ok |-> TRUE,
                          mailbox |-> [m \in DOMAIN mailbox |->
                                          IF m \in ids THEN (mailbox[m] \cup add) \ remove
                                          ELSE mailbox[m]],
                          userLabels |-> userLabels]
                    ELSE Rejected
           [] request.api = "users.messages.batchDelete" ->
                [ok |-> TRUE,
                 mailbox |-> [m \in DOMAIN mailbox \ ids |-> mailbox[m]],
                 userLabels |-> userLabels]

\* the requests of a batch handler answered one after another; a rejection
\* ends the handler
RECURSIVE BatchAnswer(_, _, _)
BatchAnswer(requests, mailbox, userLabels) ==
    IF requests = <<>> THEN [ok |-> TRUE, mailbox |-> mailbox, userLabels |-> userLabels]
    ELSE LET first == BatchUpstream(Head(requests), mailbox, userLabels) IN
         IF first.ok THEN BatchAnswer(Tail(requests), first.mailbox, first.userLabels)
         ELSE first

NoBatchCall == [tool |-> NoArg, args |-> BatchArgs(Undefined, Undefined, Undefined),
                requests |-> <<>>, before |-> <<>>, ok |-> FALSE, count |-> 0]

BatchInit ==
    /\ credFile = "installed"
    /\ tokenFile = TRUE
    /\ oauth2Client = 1
    /\ gmail = 1
    /\ calls = [c \in CallIds |-> IdleCall]
    /\ inflight = {}
    /\ fsTrace = <<>>
    /\ delivered = 0
    /\ outcome = NoOutcome
    /\ codec = NoCodec
    /\ partTree = NoPartTree
    /\ compose = NoCompose
    /\ catalog = NoCatalog
    /\ cleanup = NoCleanup
    /\ auth = NoAuth
    /\ \E mailbox \in [Messages -> SUBSET {"INBOX", "UNREAD"}] :
           labels = [mailbox |-> mailbox, userLabels |-> {"Label_1"}, last |-> NoBatchCall]

\* a batch tool call from its dispatch to its result: the state it leaves; the
\* result counts the ids of the list, which throws when there is no list
BatchCall(name, args) ==
    LET requests == BatchHandler(name, args)
        answer == BatchAnswer(requests, labels.mailbox, labels.userLabels)
        returned == answer.ok /\ args.messageIds # Undefined IN
    [mailbox |-> answer.mailbox,
     userLabels |-> answer.userLabels,
     last |-> [tool |-> name, args |-> args, requests |-> requests,
               before |-> labels.mailbox, ok |-> returned,
               count |-> IF returned THEN Len(args.messageIds) ELSE 0]]

BatchModifyCall(messageIds, delta) ==
    /\ labels' = BatchCall("gmail_batch_modify", BatchArgs(messageIds, delta[1], delta[2]))
    /\ UNCHANGED <<dispatcherVars, codec, partTree, compose, toolingVars>>

BatchDeleteCall(messageIds) ==
    /\ labels' = BatchCall("gmail_batch_delete", BatchArgs(messageIds, Undefined, Undefined))
    /\ UNCHANGED <<dispatcherVars, codec, partTree, compose, toolingVars>>

BatchNext ==
    \/ \E messageIds \in IdLists(MaxBatch) \cup {Undefined}, delta \in Deltas :
           BatchModifyCall(messageIds, delta)
    \/ \E messageIds \in IdLists(MaxBatch) \cup {Undefined} : BatchDeleteCall(messageIds)

BatchSpec == BatchInit /\ [][BatchNext]_vars

-----------------------------------------------------------------------------
(* Properties of the batch tools *)

BatchCalled == labels.last.tool \in {"gmail_batch_modify", "gmail_batch_delete"}

\* C21: gmail_batch_modify and gmail_batch_delete each issue exactly one
\* upstream batch request per call; the request carries the complete list of
\* message ids as given and, for modify, the add and remove lists unchanged,
\* whatever the length of the list.
C21_OneBatchRequest ==
    BatchCalled =>
        LET last == labels.last IN
        /\ Len(last.requests) = 1
        /\ last.requests[1].ids = last.args.messageIds
        /\ last.tool = "gmail_batch_modify" =>
               /\ last.requests[1].api = "users.messages.batchModify"
               /\ last.requests[1].addLabelIds = last.args.addLabelIds
               /\ last.requests[1].removeLabelIds = last.args.removeLabelIds
        /\ last.tool = "gmail_batch_delete" =>
               last.requests[1].api = "users.messages.batchDelete"

\* a batch modify of the longest list, answered by the mailbox
C21_Witness ==
    /\ BatchCalled
    /\ labels.last.tool = "gmail_batch_modify"
    /\ Len(labels.last.args.messageIds) = MaxBatch
    /\ Len(labels.last.requests) = 1
    /\ labels.last.ok
    /\ labels.last.count = MaxBatch

-----------------------------------------------------------------------------
(* The catalog and the dispatch table of the two variants of the server *)

\* the tools array of the Gmail variant, in the order of the catalog
Tools ==
    << "gmail_list_messages", "gmail_get_message", "gmail_send_message",
      "gmail_search", "gmail_modify_labels", "gmail_list_labels",
      "gmail_trash_message", "gmail_mark_as_read", "gmail_mark_as_unread",
      "gmail_get_thread", "gmail_reply", "gmail_create_draft",
      "gmail_list_drafts", "gmail_get_draft", "gmail_update_draft",
      "gmail_send_draft", "gmail_delete_draft", "gmail_get_attachment",
      "gmail_list_attachments", "gmail_archive_message",
      "gmail_unarchive_message", "gmail_untrash_message",
      "gmail_delete_message", "gmail_create_label", "gmail_update_label",
      "gmail_delete_label", "gmail_get_profile", "gmail_forward_message",
      "gmail_star_message", "gmail_unstar_message", "gmail_batch_modify",
      "gmail_batch_delete" >>

\* the tools array of the extended variant, in the order of the catalog
ExtTools ==
    << "gmail_list_messages", "gmail_get_message", "gmail_send_message",
      "gmail_search", "gmail_modify_labels", "gmail_list_labels",
      "gmail_trash_message", "gmail_mark_as_read", "gmail_mark_as_unread",
      "gmail_get_thread", "gmail_reply", "gmail_create_draft",
      "gmail_list_drafts", "gmail_get_draft", "gmail_update_draft",
      "gmail_send_draft", "gmail_delete_draft", "gmail_get_attachment",
      "gmail_list_attachments", "gmail_archive_message",
      "gmail_unarchive_message", "gmail_untrash_message",
      "gmail_delete_message", "gmail_create_label", "gmail_update_label",
      "gmail_delete_label", "gmail_get_profile", "gmail_forward_message",
      "gmail_star_message", "gmail_unstar_message", "gmail_batch_modify",
      "gmail_batch_delete", "photos_list_albums", "photos_get_album",
      "photos_list_media", "photos_get_media", "photos_search",
      "photos_create_album", "photos_add_to_album", "photos_share_album",
      "photos_list_shared_albums", "video_get_info", "video_extract_frame",
      "video_analyze", "video_analyze_frame" >>

\* the tools of the tables under 'Available Tools (51 total)' of the README
ReadmeTools ==
    { "gmail_list_messages", "gmail_get_message", "gmail_send_message",
      "gmail_search", "gmail_reply", "gmail_forward_message",
      "gmail_get_thread", "gmail_mark_as_read", "gmail_mark_as_unread",
      "gmail_star_message", "gmail_unstar_message", "gmail_archive_message",
      "gmail_unarchive_message", "gmail_trash_message",
      "gmail_untrash_message", "gmail_delete_message", "gmail_create_draft",
      "gmail_list_drafts", "gmail_get_draft", "gmail_update_draft",
      "gmail_send_draft", "gmail_delete_draft", "gmail_list_labels",
      "gmail_modify_labels", "gmail_create_label", "gmail_update_label",
      "gmail_delete_label", "gmail_list_attachments", "gmail_get_attachment",
      "gmail_batch_modify", "gmail_batch_delete", "gmail_get_profile",
      "photos_list_albums", "photos_get_album", "photos_list_media",
      "photos_get_media", "photos_search", "photos_create_album",
      "photos_add_to_album", "photos_share_album",
      "photos_list_shared_albums", "video_get_info", "video_extract_frame",
      "video_analyze", "video_analyze_frame", "video_transcribe",
      "video_summarize", "gmail_suggest_labels", "gmail_auto_label",
      "gmail_bulk_auto_label", "gmail_create_label_rules" }

\* the switch of the extended variant without the case of photos_share_album
ExtCasesWithoutShareAlbum ==
    {
      <<"gmail_list_messages", "listMessages">>,
      <<"gmail_get_message", "getMessage">>,
      <<"gmail_send_message", "sendMessage">>,
      <<"gmail_search", "searchMessages">>,
      <<"gmail_modify_labels", "modifyLabels">>,
      <<"gmail_list_labels", "listLabels">>,
      <<"gmail_trash_message", "trashMessage">>,
      <<"gmail_mark_as_read", "markAsRead">>,
      <<"gmail_mark_as_unread", "markAsUnread">>,
      <<"gmail_get_thread", "getThread">>,
      <<"gmail_reply", "replyToMessage">>,
      <<"gmail_create_draft", "createDraft">>,
      <<"gmail_list_drafts", "listDrafts">>,
      <<"gmail_get_draft", "getDraft">>,
      <<"gmail_update_draft", "updateDraft">>,
      <<"gmail_send_draft", "sendDraft">>,
      <<"gmail_delete_draft", "deleteDraft">>,
      <<"gmail_get_attachment", "getAttachment">>,
      <<"gmail_list_attachments", "listAttachments">>,
      <<"gmail_archive_message", "archiveMessage">>,
      <<"gmail_unarchive_message", "unarchiveMessage">>,
      <<"gmail_untrash_message", "untrashMessage">>,
      <<"gmail_delete_message", "deleteMessage">>,
      <<"gmail_create_label", "createLabel">>,
      <<"gmail_update_label", "updateLabel">>,
      <<"gmail_delete_label", "deleteLabel">>,
      <<"gmail_get_profile", "getProfile">>,
      <<"gmail_forward_message", "forwardMessage">>,
      <<"gmail_star_message", "starMessage">>,
      <<"gmail_unstar_message", "unstarMessage">>,
      <<"gmail_batch_modify", "batchModify">>,
      <<"gmail_batch_delete", "batchDelete">>,
      <<"photos_list_albums", "photosListAlbums">>,
      <<"photos_get_album", "photosGetAlbum">>,
      <<"photos_list_media", "photosListMedia">>,
      <<"photos_get_media", "photosGetMedia">>,
      <<"photos_search", "photosSearch">>,
      <<"photos_create_album", "photosCreateAlbum">>,
      <<"photos_add_to_album", "photosAddToAlbum">>,
      <<"photos_list_shared_albums", "photosListSharedAlbums">>,
      <<"video_get_info", "videoGetInfo">>,
      <<"video_extract_frame", "videoExtractFrame">>,
      <<"video_analyze", "videoAnalyze">>,
      <<"video_analyze_frame", "videoAnalyzeFrame">> }

\* switch (name) of the extended variant: each case label with the handler
\* method it calls
ExtCases ==
    {
      <<"gmail_list_messages", "listMessages">>,
      <<"gmail_get_message", "getMessage">>,
      <<"gmail_send_message", "sendMessage">>,
      <<"gmail_search", "searchMessages">>,
      <<"gmail_modify_labels", "modifyLabels">>,
      <<"gmail_list_labels", "listLabels">>,
      <<"gmail_trash_message", "trashMessage">>,
      <<"gmail_mark_as_read", "markAsRead">>,
      <<"gmail_mark_as_unread", "markAsUnread">>,
      <<"gmail_get_thread", "getThread">>,
      <<"gmail_reply", "replyToMessage">>,
      <<"gmail_create_draft", "createDraft">>,
      <<"gmail_list_drafts", "listDrafts">>,
      <<"gmail_get_draft", "getDraft">>,
      <<"gmail_update_draft", "updateDraft">>,
      <<"gmail_send_draft", "sendDraft">>,
      <<"gmail_delete_draft", "deleteDraft">>,
      <<"gmail_get_attachment", "getAttachment">>,
      <<"gmail_list_attachments", "listAttachments">>,
      <<"gmail_archive_message", "archiveMessage">>,
      <<"gmail_unarchive_message", "unarchiveMessage">>,
      <<"gmail_untrash_message", "untrashMessage">>,
      <<"gmail_delete_message", "deleteMessage">>,
      <<"gmail_create_label", "createLabel">>,
      <<"gmail_update_label", "updateLabel">>,
      <<"gmail_delete_label", "deleteLabel">>,
      <<"gmail_get_profile", "getProfile">>,
      <<"gmail_forward_message", "forwardMessage">>,
      <<"gmail_star_message", "starMessage">>,
      <<"gmail_unstar_message", "unstarMessage">>,
      <<"gmail_batch_modify", "batchModify">>,
      <<"gmail_batch_delete", "batchDelete">>,
      <<"photos_list_albums", "photosListAlbums">>,
      <<"photos_get_album", "photosGetAlbum">>,
      <<"photos_list_media", "photosListMedia">>,
      <<"photos_get_media", "photosGetMedia">>,
      <<"photos_search", "photosSearch">>,
      <<"photos_create_album", "photosCreateAlbum">>,
      <<"photos_add_to_album", "photosAddToAlbum">>,
      <<"photos_share_album", "photosShareAlbum">>,
      <<"photos_list_shared_albums", "photosListSharedAlbums">>,
      <<"video_get_info", "videoGetInfo">>,
      <<"video_extract_frame", "videoExtractFrame">>,
      <<"video_analyze", "videoAnalyze">>,
      <<"video_analyze_frame", "videoAnalyzeFrame">> }

\* switch (name) of the extended variant: the handler method called,
\* "default" when no case matches
ExtSwitch(name) ==
    IF \E p \in ExtCases : p[1] = name
    THEN (CHOOSE p \in ExtCases : p[1] = name)[2]
    ELSE "default"

\* the two servers of the repository
Variants == {"gmail", "extended"}

Catalog(variant) == IF variant = "gmail" THEN Tools ELSE ExtTools

CasesOf(variant) == IF variant = "gmail" THEN Cases ELSE ExtCases

SwitchOf(variant, name) == IF variant = "gmail" THEN Switch(name) ELSE ExtSwitch(name)

ExtInitResult(g, d, o, e, fs) ==
    [gmail |-> g, drive |-> d, oauth2Client |-> o, error |-> e, fs |-> fs]

\* initializeGmail of the extended variant assigning drive before the token
\* check
ExtInitializeGmailDriveEarly(drive) ==
    IF gmail # 0 THEN ExtInitResult(gmail, drive, oauth2Client, NoError, <<>>)
    ELSE IF credFile = "absent"
        THEN ExtInitResult(0, drive, oauth2Client, CredentialsMissing,
                 <<"existsSync(CREDENTIALS_PATH)">>)
    ELSE IF credFile = "neither"
        THEN ExtInitResult(0, drive, oauth2Client, DestructureError,
                 <<"existsSync(CREDENTIALS_PATH)", "readFileSync(CREDENTIALS_PATH)">>)
    ELSE IF tokenFile
        THEN ExtInitResult(gmail + 1, 1, 1, NoError,
                 <<"existsSync(CREDENTIALS_PATH)", "readFileSync(CREDENTIALS_PATH)",
                   "existsSync(TOKEN_PATH)", "readFileSync(TOKEN_PATH)">>)
    ELSE ExtInitResult(0, 1, 1, TokenMissing,
                 <<"existsSync(CREDENTIALS_PATH)", "readFileSync(CREDENTIALS_PATH)",
                   "existsSync(TOKEN_PATH)">>)

\* initializeGmail of the extended variant: gmail and drive are assigned
\* together, after the token has been read
ExtInitializeGmail(drive) ==
    IF gmail # 0 THEN ExtInitResult(gmail, drive, oauth2Client, NoError, <<>>)
    ELSE IF credFile = "absent"
        THEN ExtInitResult(0, drive, oauth2Client, CredentialsMissing,
                 <<"existsSync(CREDENTIALS_PATH)">>)
    ELSE IF credFile = "neither"
        THEN ExtInitResult(0, drive, oauth2Client, DestructureError,
                 <<"existsSync(CREDENTIALS_PATH)", "readFileSync(CREDENTIALS_PATH)">>)
    ELSE IF tokenFile
        THEN ExtInitResult(gmail + 1, 1, 1, NoError,
                 <<"existsSync(CREDENTIALS_PATH)", "readFileSync(CREDENTIALS_PATH)",
                   "existsSync(TOKEN_PATH)", "readFileSync(TOKEN_PATH)">>)
    ELSE ExtInitResult(0, drive, 1, TokenMissing,
                 <<"existsSync(CREDENTIALS_PATH)", "readFileSync(CREDENTIALS_PATH)",
                   "existsSync(TOKEN_PATH)">>)

\* await this.initializeGmail() of a variant
InitOf(variant, drive) ==
    IF variant = "gmail"
    THEN LET r == InitializeGmail(1) IN
         ExtInitResult(r.gmail, drive, r.oauth2Client, r.error, r.fs)
    ELSE ExtInitializeGmail(drive)

\* where a tools/call request ends up: "init" in the catch with the error of
\* initializeGmail, "switch" in the catch with the error of the default case,
\* "handler" in the handler method of its case
Routing(kind, handler, envelope) ==
    [kind |-> kind, handler |-> handler, envelope |-> envelope]

NoRouting == Routing("", "", NoEnvelope)

\* a CallTool handler that looks at the name before it establishes the session
CallToolHandlerSwitchFirst(variant, name, drive) ==
    LET init == InitOf(variant, drive)
        h == SwitchOf(variant, name) IN
    IF h = "default"
    THEN [init |-> ExtInitResult(gmail, drive, oauth2Client, NoError, <<>>),
          routing |-> Routing("switch", "", CatchEnvelope("Unknown tool: " \o name))]
    ELSE IF init.error # NoError
    THEN [init |-> init, routing |-> Routing("init", "", CatchEnvelope(init.error))]
    ELSE [init |-> init, routing |-> Routing("handler", h, NoEnvelope)]

\* the CallTool handler up to the handler method: initializeGmail, then the
\* switch
CallToolHandler(variant, name, drive) ==
    LET init == InitOf(variant, drive)
        h == SwitchOf(variant, name) IN
    IF init.error # NoError
    THEN [init |-> init, routing |-> Routing("init", "", CatchEnvelope(init.error))]
    ELSE IF h = "default"
    THEN [init |-> init,
          routing |-> Routing("switch", "", CatchEnvelope("Unknown tool: " \o name))]
    ELSE [init |-> init, routing |-> Routing("handler", h, NoEnvelope)]

\* the fields and the files as a request finds them
Found == [credFile |-> credFile, tokenFile |-> tokenFile, gmail |-> gmail]

NoCatalogRequest ==
    [method |-> "", name |-> "", tools |-> <<>>, found |-> Found, routing |-> NoRouting]

CatalogInit ==
    /\ credFile \in CredStates
    /\ tokenFile \in BOOLEAN
    /\ oauth2Client = 0
    /\ gmail = 0
    /\ calls = [c \in CallIds |-> IdleCall]
    /\ inflight = {}
    /\ fsTrace = <<>>
    /\ delivered = 0
    /\ outcome = NoOutcome
    /\ codec = NoCodec
    /\ partTree = NoPartTree
    /\ compose = NoCompose
    /\ labels = NoLabels
    /\ cleanup = NoCleanup
    /\ auth = NoAuth
    /\ \E variant \in Variants :
           catalog = [variant |-> variant, drive |-> 0, last |-> NoCatalogRequest]

\* the ListTools handler: async () => ({ tools })
ListTools ==
    /\ catalog' = [catalog EXCEPT !.last =
           [method |-> "tools/list", name |-> "", tools |-> Catalog(catalog.variant),
            found |-> Found, routing |-> NoRouting]]
    /\ fsTrace' = <<>>
    /\ UNCHANGED <<credFile, tokenFile, oauth2Client, gmail, calls, inflight, delivered,
                   outcome, codec, partTree, compose, labels, cleanup, auth>>

\* the CallTool handler for a request naming `name`, up to the handler method
CallToolRequest(name) ==
    LET r == CallToolHandler(catalog.variant, name, catalog.drive) IN
    /\ gmail' = r.init.gmail
    /\ oauth2Client' = r.init.oauth2Client
    /\ fsTrace' = r.init.fs
    /\ catalog' = [catalog EXCEPT !.drive = r.init.drive,
                                  !.last = [method |-> "tools/call", name |-> name,
                                            tools |-> <<>>, found |-> Found,
                                            routing |-> r.routing]]
    /\ UNCHANGED <<credFile, tokenFile, calls, inflight, delivered, outcome, codec,
                   partTree, compose, labels, cleanup, auth>>

\* the names tools/call requests carry: the tools of both catalogs, those of
\* the README, and one that is nowhere
RequestedNames ==
    ListSet(Tools) \cup ListSet(ExtTools) \cup ReadmeTools \cup {"gmail_summarize"}

CatalogNext ==
    \/ ListTools
    \/ \E name \in RequestedNames : CallToolRequest(name)
    \/ \E v \in CredStates : SetCredFile(v)
    \/ \E b \in BOOLEAN : SetTokenFile(b)

CatalogSpec == CatalogInit /\ [][CatalogNext]_vars

-----------------------------------------------------------------------------
(* Properties of the catalog and the dispatch table *)

Listed == catalog.last.method = "tools/list"

Called == catalog.last.method = "tools/call"

\* C24 as claimed: every tool of the README's tables is in the catalog the
\* extended server returns, and a call to it with the session established
\* never ends in the unknown-tool error.
C24_ReadmeToolsAreServed ==
    catalog.variant = "extended" =>
        /\ Listed => ReadmeTools \subseteq ListSet(catalog.last.tools)
        /\ (Called /\ catalog.last.name \in ReadmeTools /\ catalog.last.found.gmail # 0)
               => catalog.last.routing.kind # "switch"

\* C25: in each variant every name of the catalog has a case of the switch,
\* every case label is a name of the catalog, and no name is twice in the
\* catalog; a call to a name of the catalog that gets past initializeGmail
\* reaches the handler method of its case.
C25_CatalogMatchesSwitch ==
    /\ Listed =>
           LET tools == catalog.last.tools IN
           /\ \A i \in DOMAIN tools :
                  \E p \in CasesOf(catalog.variant) : p[1] = tools[i] /\ p[2] # "default"
           /\ \A p \in CasesOf(catalog.variant) : \E i \in DOMAIN tools : tools[i] = p[1]
           /\ \A i, j \in DOMAIN tools : tools[i] = tools[j] => i = j
    /\ (Called /\ catalog.last.name \in ListSet(Catalog(catalog.variant))
               /\ catalog.last.routing.kind # "init")
           => /\ catalog.last.routing.kind = "handler"
              /\ <<catalog.last.name, catalog.last.routing.handler>>
                     \in CasesOf(catalog.variant)

\* the extended server has returned its catalog of forty-five tools
C25_Witness ==
    /\ Listed
    /\ catalog.variant = "extended"
    /\ Len(catalog.last.tools) = 45
    /\ gmail # 0

\* the error initializeGmail throws for the files a call finds
InitErrorFor(found) ==
    IF found.credFile = "absent" THEN CredentialsMissing
    ELSE IF found.credFile = "neither" THEN DestructureError
    ELSE TokenMissing

FileMissing(found) == found.credFile = "absent" \/ ~found.tokenFile

InitFailed == Called /\ catalog.last.routing.kind = "init"

\* C27: gmail set implies oauth2Client set and, in the extended variant,
\* drive set, drive being set only together with gmail; a failed
\* initialization (credentials file missing, token file missing, credentials
\* without an installed or web section) leaves gmail unset, and after the
\* token-missing failure oauth2Client is already set.
C27_SessionFieldsConsistent ==
    /\ gmail # 0 => oauth2Client # 0
    /\ catalog.variant = "extended" => (gmail # 0 <=> catalog.drive # 0)
    /\ catalog.variant = "gmail" => catalog.drive = 0
    /\ InitFailed =>
           /\ gmail = 0
           /\ catalog.last.routing.envelope
                  \in { CatchEnvelope(CredentialsMissing), CatchEnvelope(TokenMissing),
                        CatchEnvelope(DestructureError) }
           /\ catalog.last.routing.envelope = CatchEnvelope(TokenMissing)
                  => oauth2Client # 0

\* the extended server after a call that failed for the missing token file:
\* oauth2Client is set, gmail and drive are not
C27_Witness ==
    /\ InitFailed
    /\ catalog.variant = "extended"
    /\ catalog.last.routing.envelope = CatchEnvelope(TokenMissing)
    /\ oauth2Client # 0
    /\ gmail = 0
    /\ catalog.drive = 0

-----------------------------------------------------------------------------
(* gmail_reply and gmail_forward_message in the dispatcher *)

\* the tools that answer to a message of the mailbox
ReplyForwardNames == {"gmail_reply", "gmail_forward_message"}

\* the server started with both files in place, no call delivered yet
ReplyForwardInit ==
    /\ credFile \in {"installed", "web"}
    /\ tokenFile = TRUE
    /\ oauth2Client = 0
    /\ gmail = 0
    /\ calls = [c \in CallIds |-> IdleCall]
    /\ inflight = {}
    /\ fsTrace = <<>>
    /\ delivered = 0
    /\ outcome = NoOutcome
    /\ codec = NoCodec
    /\ partTree = NoPartTree
    /\ compose = NoCompose
    /\ labels = NoLabels
    /\ catalog = NoCatalog
    /\ cleanup = NoCleanup
    /\ auth = NoAuth

ReplyForwardNext ==
    \/ \E c \in CallIds, name \in ReplyForwardNames :
           \E args \in ArgBags(name) : CallTool(c, name, args)
    \/ \E c \in CallIds : Dispatch(c)
    \/ \E r \in inflight : UpstreamResolve(r, 0)
    \/ \E r \in inflight, m \in UpstreamMessages : UpstreamReject(r, m)

ReplyForwardSpec == ReplyForwardInit /\ [][ReplyForwardNext]_vars

FetchAndSend == << "users.messages.get", "users.messages.send" >>

\* C28: gmail_reply and gmail_forward_message issue the fetch of the original
\* first and the send only when the fetch is no longer awaited; a call whose
\* fetch failed returns the error envelope having issued no send; a call that
\* returns a result has issued exactly one fetch followed by exactly one send.
C28_FetchBeforeSend ==
    \A c \in CallIds :
        Call(c).name \in ReplyForwardNames =>
            LET call == Call(c) IN
            /\ call.handler # "" => call.handler \in FetchThenSend
            /\ Suspended(c) =>
                   /\ call.issued \in { << "users.messages.get" >>, FetchAndSend }
                   /\ Requests(c) = { [call |-> c, api |-> call.issued[Len(call.issued)],
                                       seq |-> Len(call.issued)] }
            /\ (Completed(c) /\ call.thrown # NoError) =>
                   /\ call.envelope = CatchEnvelope(call.thrown)
                   /\ Requests(c) = {}
                   /\ call.issued \in { <<>>, << "users.messages.get" >>, FetchAndSend }
            /\ (Completed(c) /\ call.thrown = NoError) =>
                   /\ call.issued = FetchAndSend
                   /\ call.envelope = HandlerResult(call.handler)
                   /\ Requests(c) = {}

\* a gmail_forward_message call has returned its result after one fetch and
\* one send
C28_Witness ==
    \E c \in CallIds :
        /\ Completed(c)
        /\ Call(c).name = "gmail_forward_message"
        /\ Call(c).thrown = NoError
        /\ Call(c).issued = FetchAndSend

\* the fetch of a gmail_reply call failed: the error envelope, no send
FetchFailedWithoutSend ==
    \E c \in CallIds :
        /\ Completed(c)
        /\ Call(c).name = "gmail_reply"
        /\ Call(c).thrown \in UpstreamMessages
        /\ Call(c).issued = << "users.messages.get" >>

-----------------------------------------------------------------------------
(* The cleanup script: trashPromotions *)

\* the most pages the mailbox lists, and the most messages on a page
MaxPages == 2
MaxPageSize == 2

\* totalTrashed % 50 === 0: a progress line every fifty trashed messages
ProgressEvery == 50

\* pageToken = null, response.data.nextPageToken undefined
NoPageToken == 0

\* the ids of page p holding n messages
PageIds(p, n) == [j \in 1..n |-> << p, j >>]

\* the script before its first statement
CleanupStart ==
    [pc |-> "start", pageToken |-> NoPageToken, fetched |-> 0, messages |-> <<>>,
     nextPageToken |-> NoPageToken, i |-> 0, totalTrashed |-> 0, listed |-> <<>>,
     attempts |-> <<>>, errors |-> <<>>, progress |-> 0]

CleanupInit ==
    /\ credFile \in CredStates
    /\ tokenFile \in BOOLEAN
    /\ oauth2Client = 0
    /\ gmail = 0
    /\ calls = [c \in CallIds |-> IdleCall]
    /\ inflight = {}
    /\ fsTrace = <<>>
    /\ delivered = 0
    /\ outcome = NoOutcome
    /\ codec = NoCodec
    /\ partTree = NoPartTree
    /\ compose = NoCompose
    /\ labels = NoLabels
    /\ catalog = NoCatalog
    /\ auth = NoAuth
    /\ cleanup = CleanupStart

\* the end of the do-while body: pageToken = response.data.nextPageToken;
\* while (pageToken)
EndOfPage(state) ==
    [state EXCEPT !.pageToken = state.nextPageToken,
                  !.pc = IF state.nextPageToken # NoPageToken THEN "list" ELSE "done"]

\* one pass of the for loop that counts a failed trash as well
TrashAttemptCountsFailures(state, ok) ==
    LET msg == state.messages[state.i + 1]
        total == state.totalTrashed + 1
        after == [state EXCEPT
                     !.i = @ + 1,
                     !.attempts = Append(@, [id |-> msg, ok |-> ok]),
                     !.totalTrashed = total,
                     !.progress = IF total % ProgressEvery = 0 THEN @ + 1 ELSE @,
                     !.errors = IF ok THEN @ ELSE Append(@, msg)] IN
    IF after.i < Len(after.messages) THEN after ELSE EndOfPage(after)

\* one pass of the for loop: the trash request of the next message of the
\* page resolves (ok) or rejects; the loop goes on to the next message, or
\* the page is finished
TrashAttempt(state, ok) ==
    LET msg == state.messages[state.i + 1]
        total == IF ok THEN state.totalTrashed + 1 ELSE state.totalTrashed
        after == [state EXCEPT
                     !.i = @ + 1,
                     !.attempts = Append(@, [id |-> msg, ok |-> ok]),
                     !.totalTrashed = total,
                     !.progress = IF ok /\ total % ProgressEvery = 0 THEN @ + 1 ELSE @,
                     !.errors = IF ok THEN @ ELSE Append(@, msg)] IN
    IF after.i < Len(after.messages) THEN after ELSE EndOfPage(after)

\* the statements before the loop: both files are read and parsed; a missing
\* or malformed file rejects trashPromotions
ReadFiles ==
    /\ cleanup.pc = "start"
    /\ cleanup' = [cleanup EXCEPT !.pc =
           IF credFile \in {"installed", "web"} /\ tokenFile THEN "list" ELSE "failed"]
    /\ UNCHANGED <<dispatcherVars, codec, partTree, compose, labels, catalog, auth>>

\* users.messages.list resolves with n messages and, if more, a token for
\* the next page: an empty page breaks out of the loop
ListResolves(n, more) ==
    /\ cleanup.pc = "list"
    /\ cleanup.fetched < MaxPages
    /\ more => cleanup.fetched + 1 < MaxPages
    /\ LET p == cleanup.fetched + 1
           response == [cleanup EXCEPT
                           !.fetched = p,
                           !.messages = PageIds(p, n),
                           !.listed = @ \o PageIds(p, n),
                           !.nextPageToken = IF more THEN p ELSE NoPageToken,
                           !.i = 0] IN
       cleanup' = [response EXCEPT !.pc = IF n = 0 THEN "done" ELSE "trash"]
    /\ UNCHANGED <<dispatcherVars, codec, partTree, compose, labels, catalog, auth>>

\* users.messages.list rejects: nothing in the loop catches it
ListRejects ==
    /\ cleanup.pc = "list"
    /\ cleanup' = [cleanup EXCEPT !.pc = "failed"]
    /\ UNCHANGED <<dispatcherVars, codec, partTree, compose, labels, catalog, auth>>

\* users.messages.trash of the next message resolves
TrashResolves ==
    /\ cleanup.pc = "trash"
    /\ cleanup' = TrashAttempt(cleanup, TRUE)
    /\ UNCHANGED <<dispatcherVars, codec, partTree, compose, labels, catalog, auth>>

\* users.messages.trash of the next message rejects
TrashRejects ==
    /\ cleanup.pc = "trash"
    /\ cleanup' = TrashAttempt(cleanup, FALSE)
    /\ UNCHANGED <<dispatcherVars, codec, partTree, compose, labels, catalog, auth>>

CleanupNext ==
    \/ ReadFiles
    \/ \E n \in 0..MaxPageSize, more \in BOOLEAN : ListResolves(n, more)
    \/ ListRejects
    \/ TrashResolves
    \/ TrashRejects

\* every request of the script is answered
CleanupSpec == CleanupInit /\ [][CleanupNext]_vars /\ WF_vars(CleanupNext)

-----------------------------------------------------------------------------
(* Properties of the cleanup script *)

SucceededAttempts == { k \in DOMAIN cleanup.attempts : cleanup.attempts[k].ok }

FailedAttempts == { k \in DOMAIN cleanup.attempts : ~cleanup.attempts[k].ok }

\* the counters of trashPromotions, at every point of the loop
CleanupCounts ==
    /\ cleanup.totalTrashed = Cardinality(SucceededAttempts)
    /\ Len(cleanup.errors) = Cardinality(FailedAttempts)
    /\ \A k \in DOMAIN cleanup.errors :
           \E a \in FailedAttempts : cleanup.attempts[a].id = cleanup.errors[k]
    /\ Len(cleanup.attempts) <= Len(cleanup.listed)
    /\ \A k \in DOMAIN cleanup.attempts : cleanup.attempts[k].id = cleanup.listed[k]
    /\ \A j, k \in DOMAIN cleanup.attempts :
           cleanup.attempts[j].id = cleanup.attempts[k].id => j = k
    /\ cleanup.pc = "trash" => cleanup.i < Len(cleanup.messages)
    /\ cleanup.pc = "done" =>
           /\ Len(cleanup.attempts) = Len(cleanup.listed)
           /\ cleanup.messages = <<>> \/ cleanup.nextPageToken = NoPageToken
    /\ (cleanup.pc = "list" /\ cleanup.fetched > 0) =>
           /\ cleanup.messages # <<>>
           /\ cleanup.pageToken # NoPageToken
           /\ Len(cleanup.attempts) = Len(cleanup.listed)

\* C29: the loop of trashPromotions ends (the script is done, or a list
\* request failed) and it is done only after an empty page or a page without
\* a continuation token; every id of every fetched page gets exactly one
\* trash attempt, a failed attempt is logged and the loop goes on, and
\* totalTrashed is the number of attempts that succeeded.
C29_TrashLoop ==
    /\ []CleanupCounts
    /\ <>(cleanup.pc \in {"done", "failed"})

\* two pages were fetched, one attempt failed and a later one succeeded, and
\* the script is done
C29_Witness ==
    /\ cleanup.pc = "done"
    /\ cleanup.fetched = MaxPages
    /\ \E j, k \in DOMAIN cleanup.attempts :
           j < k /\ ~cleanup.attempts[j].ok /\ cleanup.attempts[k].ok
    /\ cleanup.totalTrashed < Len(cleanup.attempts)

-----------------------------------------------------------------------------
(* The authentication helper: authenticate *)

\* the most HTTP requests the callback server receives
MaxRequests == 2

CallbackPath == "/oauth2callback"

\* the paths of the requests the callback server receives
RequestPaths == {CallbackPath, "/", "/favicon.ico"}

\* what the user types at the re-authenticate question
Answers == {"y", "Y", "n", "N", "yes", ""}

\* String.toLowerCase() on the answers that occur
AnswerToLowerCase(answer) ==
    CASE answer = "Y" -> "y"
      [] answer = "N" -> "n"
      [] OTHER -> answer

\* the helper before its first statement; status is the exit status once the
\* process has ended
AuthStart(configDir) ==
    [pc |-> "start", status |-> "", exitedBy |-> "", configDir |-> configDir,
     hadToken |-> tokenFile, server |-> "none", requests |-> <<>>,
     written |-> <<>>, exitTimer |-> FALSE]

Exit(state, status, by) ==
    [state EXCEPT !.pc = "exited", !.status = status, !.exitedBy = by,
                  !.server = IF @ = "listening" THEN "closed" ELSE @]

\* http.createServer(...); server.listen(3000); the five-minute timer
Listen(state) == [state EXCEPT !.pc = "listening", !.server = "listening"]

\* the request handler of the callback server up to its await or response
HandleRequest(state, path, code) ==
    [state EXCEPT !.requests = Append(@,
        [path |-> path, code |-> code,
         response |-> IF path # CallbackPath THEN "404"
                      ELSE IF ~code THEN "400"
                      ELSE "exchanging"])]

\* a handler that saves the tokens whether or not the exchange succeeded
TokenExchangedSavesAlways(state, k, ok) ==
    IF ok
    THEN [state EXCEPT !.requests[k].response = "200",
                       !.written = Append(@, k),
                       !.exitTimer = TRUE]
    ELSE Exit([state EXCEPT !.requests[k].response = "500",
                            !.written = Append(@, k)], "1", "exchange")

\* oauth2Client.getToken(code) of request k has settled: the tokens are
\* saved and the exit is scheduled, or the catch ends the process
TokenExchanged(state, k, ok) ==
    IF ok
    THEN [state EXCEPT !.requests[k].response = "200",
                       !.written = Append(@, k),
                       !.exitTimer = TRUE]
    ELSE Exit([state EXCEPT !.requests[k].response = "500"], "1", "exchange")

\* the files as the helper can find them: the credentials file and the token
\* file are in the configuration directory
AuthInit ==
    /\ credFile \in CredStates
    /\ tokenFile \in BOOLEAN
    /\ oauth2Client = 0
    /\ gmail = 0
    /\ calls = [c \in CallIds |-> IdleCall]
    /\ inflight = {}
    /\ fsTrace = <<>>
    /\ delivered = 0
    /\ outcome = NoOutcome
    /\ codec = NoCodec
    /\ partTree = NoPartTree
    /\ compose = NoCompose
    /\ labels = NoLabels
    /\ catalog = NoCatalog
    /\ cleanup = NoCleanup
    /\ \E configDir \in BOOLEAN :
           /\ (credFile # "absent" \/ tokenFile) => configDir
           /\ auth = AuthStart(configDir)

\* authenticate up to its first await, or to the end of the process
Authenticate ==
    /\ auth.pc = "start"
    /\ LET made == [auth EXCEPT !.configDir = TRUE] IN
       auth' = IF credFile = "absent" THEN Exit(made, "1", "credentials")
               ELSE IF credFile = "neither" THEN Exit(made, "0", "rejected")
               ELSE IF tokenFile THEN [made EXCEPT !.pc = "question"]
               ELSE Listen(made)
    /\ UNCHANGED <<dispatcherVars, codec, partTree, compose, labels, catalog, cleanup>>

\* the user answers the question asked when a token exists
AnswerQuestion(answer) ==
    /\ auth.pc = "question"
    /\ auth' = IF AnswerToLowerCase(answer) # "y" THEN Exit(auth, "0", "answer")
               ELSE Listen(auth)
    /\ UNCHANGED <<dispatcherVars, codec, partTree, compose, labels, catalog, cleanup>>

\* the callback server receives a request
Request(path, code) ==
    /\ auth.pc = "listening"
    /\ Len(auth.requests) < MaxRequests
    /\ auth' = HandleRequest(auth, path, code)
    /\ UNCHANGED <<dispatcherVars, codec, partTree, compose, labels, catalog, cleanup>>

\* the code exchange of request k succeeds: fs.writeFileSync(TOKEN_PATH, ...)
ExchangeResolves(k) ==
    /\ auth.pc = "listening"
    /\ auth.requests[k].response = "exchanging"
    /\ auth' = TokenExchanged(auth, k, TRUE)
    /\ tokenFile' = (tokenFile \/ auth'.written # auth.written)
    /\ UNCHANGED <<credFile, oauth2Client, gmail, calls, inflight, fsTrace, delivered,
                   outcome, codec, partTree, compose, labels, catalog, cleanup>>

\* the code exchange of request k fails
ExchangeRejects(k) ==
    /\ auth.pc = "listening"
    /\ auth.requests[k].response = "exchanging"
    /\ auth' = TokenExchanged(auth, k, FALSE)
    /\ tokenFile' = (tokenFile \/ auth'.written # auth.written)
    /\ UNCHANGED <<credFile, oauth2Client, gmail, calls, inflight, fsTrace, delivered,
                   outcome, codec, partTree, compose, labels, catalog, cleanup>>

\* one second after the tokens were saved: server.close(); process.exit(0)
ExitAfterSave ==
    /\ auth.pc = "listening"
    /\ auth.exitTimer
    /\ auth' = Exit(auth, "0", "saved")
    /\ UNCHANGED <<dispatcherVars, codec, partTree, compose, labels, catalog, cleanup>>

\* five minutes after the server was started: process.exit(1)
Timeout ==
    /\ auth.pc = "listening"
    /\ auth' = Exit(auth, "1", "timeout")
    /\ UNCHANGED <<dispatcherVars, codec, partTree, compose, labels, catalog, cleanup>>

AuthNext ==
    \/ Authenticate
    \/ \E answer \in Answers : AnswerQuestion(answer)
    \/ \E path \in RequestPaths, code \in BOOLEAN : Request(path, code)
    \/ \E k \in DOMAIN auth.requests : ExchangeResolves(k)
    \/ \E k \in DOMAIN auth.requests : ExchangeRejects(k)
    \/ ExitAfterSave
    \/ Timeout

AuthSpec == AuthInit /\ [][AuthNext]_vars

-----------------------------------------------------------------------------
(* Properties of the authentication helper *)

Written == { auth.written[i] : i \in DOMAIN auth.written }

\* C30: the token file is written only for a callback request that carried
\* a code whose exchange succeeded; a callback without a code, a failed
\* exchange, a request to another path and the timeout write nothing; when
\* a token exists and the answer is not y or Y the process exits with
\* status 0, the token file as it was, the callback server never started.
C30_TokenWrittenOnlyAfterExchange ==
    /\ \A k \in DOMAIN auth.requests :
           LET request == auth.requests[k] IN
           k \in Written <=>
               (request.path = CallbackPath /\ request.code /\ request.response = "200")
    /\ Len(auth.written) = Cardinality(Written)
    /\ Written \subseteq DOMAIN auth.requests
    /\ Written = {} => tokenFile = auth.hadToken
    /\ Written # {} => tokenFile
    /\ auth.exitedBy = "answer" =>
           /\ auth.status = "0"
           /\ auth.hadToken /\ tokenFile
           /\ Written = {}
           /\ auth.server = "none"
           /\ auth.requests = <<>>
    /\ auth.exitedBy \in {"credentials", "rejected"} =>
           Written = {} /\ auth.server = "none"
    /\ auth.exitedBy \in {"exchange", "timeout"} => auth.status = "1"

\* re-authentication with an existing token: a callback without a code was
\* answered 400, the exchange of a second callback succeeded and its tokens
\* were saved, and the process has exited with status 0
C30_Witness ==
    /\ auth.exitedBy = "saved"
    /\ auth.hadToken
    /\ Len(auth.requests) = 2
    /\ auth.requests[1].path = CallbackPath
    /\ auth.requests[1].response = "400"
    /\ auth.written = << 2 >>
    /\ auth.status = "0"

\* the existing token is kept: the answer was not y or Y
KeptExistingToken ==
    /\ auth.exitedBy = "answer"
    /\ tokenFile
    /\ auth.server = "none"

=============================================================================
